---- MODULE Spec2Model ----
(***************************************************************************)
(* The in-process cache of vulhub-backend and the three components built   *)
(* on it: MemoryCacheService (the bounded, expiring key/value store),      *)
(* CacheService (cache-aside facade), RateLimitGuard (fixed-window rate    *)
(* limiter) and TokenBlacklistService (token revocation).                  *)
(*                                                                         *)
(* Representation.                                                         *)
(*  - A key is the sequence of the chunks of its string, so that           *)
(*    `blacklist:${token}` is <<"blacklist:", token>> and the glob         *)
(*    pattern "blacklist:*" is <<"blacklist:", "*">>.                      *)
(*  - The JavaScript Map is a sequence of entries in insertion order.      *)
(*  - Date.now() is the variable now, in milliseconds; it moves through    *)
(*    a finite set of instants chosen per specification.                   *)
(*  - string | null results are sequences: <<>> is null, <<v>> is v.       *)
(***************************************************************************)
EXTENDS Integers, Sequences, FiniteSets, TLC

VARIABLES
    cache,      \* MemoryCacheService.cache : Map<string, CacheEntry>
    now,        \* Date.now()
    last,       \* the operation that completed last, its arguments and result
    written,    \* history: per key, the last set() and when it happened
    served,     \* history: per key, the window in progress or the read that cached it
    submissions,\* the Submission table: id -> row
    emitted,    \* the payload WebSocketGateway.server.emit was called with last
    inflight    \* per caller, the call suspended at an await and its locals

vars == <<cache, now, last, written, served, submissions, emitted, inflight>>

----------------------------------------------------------------------------
(* Bounds of the model *)

MaxSize == 2        \* MemoryCacheService.maxSize, scaled down from 10000
MaxServed == 7      \* requests followed per rate-limit window
MaxCount == 1       \* incr is not taken beyond this counter value
MaxCounter == 3     \* the same, where counters are followed alone

NULL == <<>>
Some(v) == <<v>>

Max(a, b) == IF a >= b THEN a ELSE b

----------------------------------------------------------------------------
(* JavaScript Map<string, CacheEntry>: insertion ordered *)

MapHas(c, key) == \E i \in 1..Len(c) : c[i].key = key

MapGet(c, key) ==
    IF MapHas(c, key)
    THEN Some(c[CHOOSE i \in 1..Len(c) : c[i].key = key])
    ELSE NULL

MapDelete(c, key) == SelectSeq(c, LAMBDA e : e.key # key)

\* Map.set keeps the position of a key that is already present
MapSet(c, key, value, expiresAt) ==
    LET e == [key |-> key, value |-> value, expiresAt |-> expiresAt]
    IN  IF MapHas(c, key)
        THEN [i \in 1..Len(c) |-> IF c[i].key = key THEN e ELSE c[i]]
        ELSE Append(c, e)

----------------------------------------------------------------------------
(* Strings holding integers *)

Digits == <<"0", "1", "2", "3", "4", "5", "6", "7", "8", "9", "10", "11", "12">>

\* Number.prototype.toString for the counter values the model reaches
toString(n) == Digits[n + 1]

\* parseInt(s): <<n>> or <<>> for NaN
ParseInt(s) ==
    IF \E n \in 0..(Len(Digits) - 1) : Digits[n + 1] = s
    THEN Some(CHOOSE n \in 0..(Len(Digits) - 1) : Digits[n + 1] = s)
    ELSE NULL

\* parseInt(s) || 0
ParseIntOr0(s) == IF ParseInt(s) = NULL THEN 0 ELSE ParseInt(s)[1]

----------------------------------------------------------------------------
(* MemoryCacheService.  Every method is a function of the map c and the   *)
(* clock t and yields the new map and the returned value.                  *)

get(c, t, key) ==
    LET entry == MapGet(c, key) IN
    IF entry = NULL
    THEN [cache |-> c, ret |-> NULL]
    ELSE IF entry[1].expiresAt # 0 /\ t > entry[1].expiresAt
    THEN [cache |-> MapDelete(c, key), ret |-> NULL]
    ELSE [cache |-> c, ret |-> Some(entry[1].value)]

\* set that ignores its ttl argument: nothing it writes ever expires
set_ignoresTtl(c, t, key, value, secs) ==
    LET c1 == IF Len(c) >= MaxSize /\ ~MapHas(c, key)
              THEN MapDelete(c, c[1].key)
              ELSE c
    IN  [cache |-> MapSet(c1, key, value, 0), ret |-> "OK"]

\* set that evicts the entry inserted last instead of the one inserted first
set_evictsNewest(c, t, key, value, secs) ==
    LET c1 == IF Len(c) >= MaxSize /\ ~MapHas(c, key)
              THEN MapDelete(c, c[Len(c)].key)
              ELSE c
        expiresAt == IF secs # 0 THEN t + secs * 1000 ELSE 0
    IN  [cache |-> MapSet(c1, key, value, expiresAt), ret |-> "OK"]

\* secs = 0 stands for an omitted (or zero) ttl: both are falsy
set(c, t, key, value, secs) ==
    LET c1 == IF Len(c) >= MaxSize /\ ~MapHas(c, key)
              THEN LET firstKey == c[1].key
                   IN  IF firstKey # <<>> THEN MapDelete(c, firstKey) ELSE c
              ELSE c
        expiresAt == IF secs # 0 THEN t + secs * 1000 ELSE 0
    IN  [cache |-> MapSet(c1, key, value, expiresAt), ret |-> "OK"]

setex(c, t, key, secs, value) == set(c, t, key, value, secs)

del(c, key) ==
    IF MapHas(c, key)
    THEN [cache |-> MapDelete(c, key), ret |-> 1]
    ELSE [cache |-> c, ret |-> 0]

RECURSIVE delMultiple(_, _)
delMultiple(c, ks) ==
    IF ks = <<>>
    THEN [cache |-> c, ret |-> 0]
    ELSE LET rest == delMultiple(MapDelete(c, Head(ks)), Tail(ks))
         IN  [cache |-> rest.cache,
              ret |-> rest.ret + (IF MapHas(c, Head(ks)) THEN 1 ELSE 0)]

\* exists that answers from the map alone, without looking at expiresAt
exists_ignoresExpiry(c, t, key) == [cache |-> c, ret |-> MapHas(c, key)]

exists(c, t, key) ==
    LET entry == MapGet(c, key) IN
    IF entry = NULL
    THEN [cache |-> c, ret |-> FALSE]
    ELSE IF entry[1].expiresAt # 0 /\ t > entry[1].expiresAt
    THEN [cache |-> MapDelete(c, key), ret |-> FALSE]
    ELSE [cache |-> c, ret |-> TRUE]

expire(c, t, key, secs) ==
    LET entry == MapGet(c, key) IN
    IF entry = NULL
    THEN [cache |-> c, ret |-> FALSE]
    ELSE [cache |-> MapSet(c, key, entry[1].value, t + secs * 1000), ret |-> TRUE]

ttl(c, t, key) ==
    LET entry == MapGet(c, key) IN
    IF entry = NULL \/ entry[1].expiresAt = 0
    THEN -1
    ELSE LET remaining == (entry[1].expiresAt - t) \div 1000
         IN  IF remaining > 0 THEN remaining ELSE -2

\* the counter value incr and decr start from
currentValue(c, t, key) ==
    LET entry == MapGet(c, key) IN
    IF entry # NULL /\ (entry[1].expiresAt = 0 \/ t <= entry[1].expiresAt)
    THEN ParseIntOr0(entry[1].value)
    ELSE 0

\* incr that writes the counter back without its expiry
incr_losesExpiry(c, t, key) ==
    LET newValue == currentValue(c, t, key) + 1
    IN  [cache |-> MapSet(c, key, toString(newValue), 0), ret |-> newValue]

\* incr that starts from 0 whatever the counter holds
incr_restarts(c, t, key) ==
    LET entry == MapGet(c, key)
        expiresAt == IF entry = NULL THEN 0 ELSE entry[1].expiresAt
    IN  [cache |-> MapSet(c, key, toString(1), expiresAt), ret |-> 1]

incr(c, t, key) ==
    LET entry == MapGet(c, key)
        newValue == currentValue(c, t, key) + 1
        expiresAt == IF entry = NULL THEN 0 ELSE entry[1].expiresAt
    IN  [cache |-> MapSet(c, key, toString(newValue), expiresAt), ret |-> newValue]

decr(c, t, key) ==
    LET entry == MapGet(c, key)
        newValue == Max(0, currentValue(c, t, key) - 1)
        expiresAt == IF entry = NULL THEN 0 ELSE entry[1].expiresAt
    IN  [cache |-> MapSet(c, key, toString(newValue), expiresAt), ret |-> newValue]

\* the chunks that hold a line terminator, which "." does not match
MultiLine == {"a\nb"}

\* patternToRegex + RegExp.test: "*" becomes ".*" and matches any run of
\* chunks without a line terminator, every other chunk matches itself, and
\* the match is anchored at both ends (the RegExp has no flags)
RECURSIVE patternToRegex(_, _)
patternToRegex(pattern, s) ==
    IF pattern = <<>> THEN s = <<>>
    ELSE IF Head(pattern) = "*"
    THEN \/ patternToRegex(Tail(pattern), s)
         \/ s # <<>> /\ Head(s) \notin MultiLine /\ patternToRegex(pattern, Tail(s))
    ELSE s # <<>> /\ Head(s) = Head(pattern) /\ patternToRegex(Tail(pattern), Tail(s))

\* the matching keys, in the map's order; keys does not purge
keys(c, t, pattern) ==
    LET live == SelectSeq(c, LAMBDA e :
                    patternToRegex(pattern, e.key)
                    /\ (e.expiresAt = 0 \/ t <= e.expiresAt))
    IN  [i \in 1..Len(live) |-> live[i].key]

\* cleanupExpired that also removes the entries expiring at this very instant
cleanupExpired_atExpiry(c, t) ==
    SelectSeq(c, LAMBDA e : ~(e.expiresAt # 0 /\ t >= e.expiresAt))

cleanupExpired(c, t) ==
    SelectSeq(c, LAMBDA e : ~(e.expiresAt # 0 /\ t > e.expiresAt))

----------------------------------------------------------------------------
(* RateLimitGuard *)

\* String.prototype.includes on an endpoint given as its chunks
Includes(endpoint, fragment) == \E i \in 1..Len(endpoint) : endpoint[i] = fragment

getRateLimit(endpoint, method, userId, isDevelopment) ==
    LET isAuthenticated == userId # NULL IN
    IF Includes(endpoint, "/auth/login") \/ Includes(endpoint, "/auth/register")
    THEN IF isDevelopment
         THEN [max |-> IF isAuthenticated THEN 20 ELSE 50, window |-> 900]
         ELSE [max |-> IF isAuthenticated THEN 10 ELSE 5, window |-> 900]
    ELSE IF Includes(endpoint, "/auth/reset") \/ Includes(endpoint, "/auth/forgot")
    THEN IF isDevelopment
         THEN [max |-> 10, window |-> 3600]
         ELSE [max |-> 3, window |-> 3600]
    ELSE IF Includes(endpoint, "/upload") \/ (method = "POST" /\ Includes(endpoint, "/files"))
    THEN IF isDevelopment
         THEN [max |-> 50, window |-> 3600]
         ELSE [max |-> 10, window |-> 3600]
    ELSE IF method \in {"POST", "PUT", "DELETE"}
    THEN IF isDevelopment
         THEN [max |-> IF isAuthenticated THEN 500 ELSE 200, window |-> 3600]
         ELSE [max |-> IF isAuthenticated THEN 100 ELSE 50, window |-> 3600]
    ELSE IF isDevelopment
         THEN [max |-> IF isAuthenticated THEN 2000 ELSE 1000, window |-> 3600]
         ELSE [max |-> IF isAuthenticated THEN 500 ELSE 200, window |-> 3600]

\* the request's headers are options; forwarded is the first address of
\* x-forwarded-for, already trimmed
getClientIP(request) ==
    IF request.cfConnectingIP # NULL THEN request.cfConnectingIP[1]
    ELSE IF request.forwarded # NULL THEN request.forwarded[1]
    ELSE IF request.realIP # NULL THEN request.realIP[1]
    ELSE request.ip

\* setRateLimitHeaders that reports max - count, without the request in hand
setRateLimitHeaders_uncounted(currentCount, limits) ==
    IF currentCount = NULL THEN NULL
    ELSE Some(Max(0, limits.max - currentCount[1]))

\* X-RateLimit-Remaining; currentCount is <<n>>, or <<>> for NaN
setRateLimitHeaders(currentCount, limits) ==
    IF currentCount = NULL THEN NULL
    ELSE Some(Max(0, limits.max - currentCount[1] - 1))

getTTL(c, t, key) ==
    LET v == ttl(c, t, key) IN IF v > 0 THEN v ELSE 0

\* `rate_limit:${identifier}:${endpoint}`
rateLimitKey(request) ==
    LET identifier == IF request.userId # NULL THEN request.userId[1]
                      ELSE getClientIP(request)
    IN  <<"rate_limit:", identifier, ":">> \o request.endpoint

\* canActivate with an off-by-one comparison: rejects only when count > max
canActivate_offByOne(c, t, request, isDevelopment) ==
    LET limits == getRateLimit(request.endpoint, request.method, request.userId, isDevelopment)
        key == rateLimitKey(request)
        g == get(c, t, key)
        count == IF g.ret # NULL /\ g.ret[1] # "" THEN ParseInt(g.ret[1]) ELSE Some(0)
    IN  IF count # NULL /\ count[1] > limits.max
        THEN [cache |-> g.cache, key |-> key, count |-> count, admitted |-> FALSE,
              remaining |-> setRateLimitHeaders(count, limits),
              exception |-> Some([retryAfter |-> limits.window - getTTL(g.cache, t, key),
                                  limit |-> limits.max, remaining |-> 0])]
        ELSE [cache |-> IF count = Some(0)
                        THEN setex(g.cache, t, key, limits.window, "1").cache
                        ELSE incr(g.cache, t, key).cache,
              key |-> key, count |-> count, admitted |-> TRUE,
              remaining |-> setRateLimitHeaders(count, limits), exception |-> NULL]

\* canActivate that counts the requests it rejects
canActivate_countsRejected(c, t, request, isDevelopment) ==
    LET limits == getRateLimit(request.endpoint, request.method, request.userId, isDevelopment)
        key == rateLimitKey(request)
        g == get(c, t, key)
        count == IF g.ret # NULL /\ g.ret[1] # "" THEN ParseInt(g.ret[1]) ELSE Some(0)
    IN  IF count # NULL /\ count[1] >= limits.max
        THEN [cache |-> incr(g.cache, t, key).cache, key |-> key, count |-> count,
              admitted |-> FALSE,
              remaining |-> setRateLimitHeaders(count, limits),
              exception |-> Some([retryAfter |-> limits.window - getTTL(g.cache, t, key),
                                  limit |-> limits.max, remaining |-> 0])]
        ELSE [cache |-> IF count = Some(0)
                        THEN setex(g.cache, t, key, limits.window, "1").cache
                        ELSE incr(g.cache, t, key).cache,
              key |-> key, count |-> count, admitted |-> TRUE,
              remaining |-> setRateLimitHeaders(count, limits), exception |-> NULL]

\* the outcome of one request: the new map, whether the request is admitted
\* (canActivate returned true), the X-RateLimit-Remaining header and the
\* payload of the HttpException thrown on rejection
canActivate(c, t, request, isDevelopment) ==
    LET limits == getRateLimit(request.endpoint, request.method, request.userId, isDevelopment)
        key == rateLimitKey(request)
        g == get(c, t, key)
        \* current ? parseInt(current) : 0, NaN being <<>>
        count == IF g.ret # NULL /\ g.ret[1] # "" THEN ParseInt(g.ret[1]) ELSE Some(0)
    IN  IF count # NULL /\ count[1] >= limits.max
        THEN [cache |-> g.cache, key |-> key, count |-> count, admitted |-> FALSE,
              remaining |-> setRateLimitHeaders(count, limits),
              exception |-> Some([retryAfter |-> limits.window - getTTL(g.cache, t, key),
                                  limit |-> limits.max, remaining |-> 0])]
        ELSE [cache |-> IF count = Some(0)
                        THEN setex(g.cache, t, key, limits.window, "1").cache
                        ELSE incr(g.cache, t, key).cache,
              key |-> key, count |-> count, admitted |-> TRUE,
              remaining |-> setRateLimitHeaders(count, limits), exception |-> NULL]

----------------------------------------------------------------------------
(* TokenBlacklistService *)

\* blacklistToken that stores the token's remaining lifetime without the floor
blacklistToken_noFloor(c, t, token, userId, expiresIn) ==
    setex(c, t, <<"blacklist:", token>>, expiresIn, userId).cache

blacklistToken(c, t, token, userId, expiresIn) ==
    LET key == <<"blacklist:", token>>
        secs == Max(expiresIn, 3600)
    IN  setex(c, t, key, secs, userId).cache

\* !!result
isTokenBlacklisted(c, t, token) ==
    LET g == get(c, t, <<"blacklist:", token>>)
    IN  [cache |-> g.cache, ret |-> g.ret # NULL /\ g.ret[1] # ""]

\* the keys of ks whose stored value is userId, and the map after reading them
RECURSIVE userTokens(_, _, _, _)
userTokens(c, t, ks, userId) ==
    IF ks = <<>>
    THEN [cache |-> c, keys |-> <<>>]
    ELSE LET g == get(c, t, Head(ks))
             rest == userTokens(g.cache, t, Tail(ks), userId)
         IN  [cache |-> rest.cache,
              keys |-> IF g.ret = Some(userId) THEN <<Head(ks)>> \o rest.keys
                       ELSE rest.keys]

\* blacklistAllUserTokens that does not compare the stored owner
blacklistAllUserTokens_anyOwner(c, t, userId) ==
    LET ks == keys(c, t, <<"blacklist:", "*">>)
    IN  IF Len(ks) > 0 THEN delMultiple(c, ks).cache ELSE c

blacklistAllUserTokens(c, t, userId) ==
    LET ks == keys(c, t, <<"blacklist:", "*">>)
        u == userTokens(c, t, ks, userId)
    IN  IF Len(u.keys) > 0 THEN delMultiple(u.cache, u.keys).cache ELSE u.cache

----------------------------------------------------------------------------
(* LeaderboardsRepository: the queries over the tables User and Submission. *)
(* A table is a function from the submission id to its row; the columns    *)
(* copied unchanged from User (names, email, avatar) are left out.          *)

\* the rows of the Submission table and the user each belongs to; every
\* user of ActiveUsers has status ACTIVE, U3 has no submission
SubmissionIds == {"s1", "s2", "s3"}
Owner == [s1 |-> "U1", s2 |-> "U2", s3 |-> "U2"]
CreatedAt == [s1 |-> 1000, s2 |-> 2000, s3 |-> 3000]
ActiveUsers == {"U1", "U2", "U3"}

\* what a review writes
ReviewStatuses == {"APPROVED", "REJECTED"}
ReviewScores == {50, 100}

Min(a, b) == IF a <= b THEN a ELSE b

\* `const r = <value>; ...`: the value is computed once and F reads it
With(r, F(_)) == F(r)

RECURSIVE GCD(_, _)
GCD(a, b) == IF b = 0 THEN a ELSE GCD(b, a % b)

\* SUM(s.score) over the rows ids: rows whose score is NULL do not count
RECURSIVE SumScore(_, _)
SumScore(db, ids) ==
    IF ids = {} THEN 0
    ELSE LET id == CHOOSE x \in ids : TRUE
         IN  (IF db[id].score = NULL THEN 0 ELSE db[id].score[1])
                 + SumScore(db, ids \ {id})

\* COALESCE(AVG(CASE WHEN s.status = 'APPROVED' THEN s.score END), 0), as
\* the fraction num/den in lowest terms
AvgApproved(db, ids) ==
    LET scored == {id \in ids : db[id].status = "APPROVED" /\ db[id].score # NULL}
        sum == SumScore(db, scored)
        n == Cardinality(scored)
    IN  IF n = 0 \/ sum = 0 THEN [num |-> 0, den |-> 1]
        ELSE [num |-> sum \div GCD(sum, n), den |-> n \div GCD(sum, n)]

\* MAX(CASE WHEN s.status = 'APPROVED' THEN s.score END), 0 when there is none
MaxApproved(db, ids) ==
    LET scored == {id \in ids : db[id].status = "APPROVED" /\ db[id].score # NULL}
    IN  IF scored = {} THEN 0
        ELSE db[CHOOSE id \in scored :
                    \A o \in scored : db[o].score[1] <= db[id].score[1]].score[1]

Greater(p, q) == p.num * q.den > q.num * p.den

\* getDateFilter: <<>> for no filter, else the earliest createdAt admitted
getDateFilter(t, timeRange) ==
    IF timeRange = "" \/ timeRange = "all" THEN NULL
    ELSE IF timeRange = "week" THEN Some(t - 7 * 24 * 60 * 60 * 1000)
    ELSE IF timeRange = "month" THEN Some(t - 30 * 24 * 60 * 60 * 1000)
    ELSE NULL

\* the submissions LEFT JOINed to user u
Joined(db, u, dateFilter) ==
    {id \in DOMAIN db :
        /\ db[id].userId = u
        /\ dateFilter # NULL => CreatedAt[id] >= dateFilter[1]}

\* the row the GROUP BY produces for user u
Aggregate(db, u, dateFilter) ==
    LET mine == Joined(db, u, dateFilter) IN
    [userId |-> u,
     totalScore |-> SumScore(db, mine),
     totalSubmissions |-> Cardinality(mine),
     approvedSubmissions |-> Cardinality({id \in mine : db[id].status = "APPROVED"}),
     averageScore |-> AvgApproved(db, mine),
     badges |-> 0]

\* an ordering by totalScore alone, without the two tie-breaks
OrderedBefore_scoreOnly(a, b) == a.totalScore > b.totalScore

\* ORDER BY "totalScore" DESC, "approvedSubmissions" DESC, "averageScore" DESC:
\* row a has to come before row b
OrderedBefore(a, b) ==
    \/ a.totalScore > b.totalScore
    \/ /\ a.totalScore = b.totalScore
       /\ a.approvedSubmissions > b.approvedSubmissions
    \/ /\ a.totalScore = b.totalScore
       /\ a.approvedSubmissions = b.approvedSubmissions
       /\ Greater(a.averageScore, b.averageScore)

\* the orders the database may return the rows in: rows equal on the three
\* sort keys come in any order
QueryOrders(rows) ==
    {p \in [1..Cardinality(rows) -> rows] :
        /\ \A i, j \in DOMAIN p : i # j => p[i] # p[j]
        /\ \A i, j \in DOMAIN p : i < j => ~OrderedBefore(p[j], p[i])}

\* results.map((row, index) => ({...row, rank: index + 1}))
Ranked(p) ==
    [i \in DOMAIN p |->
        [userId |-> p[i].userId, totalScore |-> p[i].totalScore,
         totalSubmissions |-> p[i].totalSubmissions,
         approvedSubmissions |-> p[i].approvedSubmissions,
         averageScore |-> p[i].averageScore, rank |-> i, badges |-> p[i].badges]]

\* the set of lists the query may produce
calculateOverallLeaderboard(db, t, timeRange) ==
    LET dateFilter == getDateFilter(t, timeRange)
        rows == {Aggregate(db, u, dateFilter) : u \in ActiveUsers}
    IN  {Ranked(p) : p \in QueryOrders(rows)}

\* a Date, and the string JSON.stringify turns it into
JsDate(ms) == [date |-> ms]
toISOString(d) == ToString(d.date)

\* what JSON.parse gives back for the text of a LeaderboardStats: the Date
\* has become a string
StatsAsJson(stats) == [stats EXCEPT !.lastUpdated = toISOString(stats.lastUpdated)]

getLeaderboardStats(db, t) ==
    LET all == {id \in DOMAIN db : db[id].userId \in ActiveUsers} IN
    [totalUsers |-> Cardinality(ActiveUsers),
     totalSubmissions |-> Cardinality(all),
     averageScore |-> AvgApproved(db, all),
     topScore |-> MaxApproved(db, all),
     lastUpdated |-> JsDate(t)]

\* every content the Submission table can have: a submission is PENDING
\* without a score until a review writes its status and score
RowsOf(id) ==
    {[userId |-> Owner[id], status |-> "PENDING", score |-> NULL]}
        \cup {[userId |-> Owner[id], status |-> st, score |-> Some(n)] :
                 st \in ReviewStatuses, n \in ReviewScores}

Tables ==
    {db \in [SubmissionIds -> UNION {RowsOf(id) : id \in SubmissionIds}] :
        \A id \in SubmissionIds : db[id] \in RowsOf(id)}

\* the time ranges a leaderboard is asked for ("" is an omitted timeRange)
\* and the instants the leaderboard is observed at
TimeRanges == {""}
BoardInstants == {10000, 310500}

\* the texts of the arrays and of the stats objects the repository can
\* return, each with the value JSON.parse gives back for it
\* the JSON text of a list of entries and of a stats object: the printed
\* tuple of the fields' values
EntryFields(e) ==
    <<e.userId, e.totalScore, e.totalSubmissions, e.approvedSubmissions,
      e.averageScore.num, e.averageScore.den, e.rank, e.badges>>

RECURSIVE ListFields(_)
ListFields(list) ==
    IF list = <<>> THEN <<>>
    ELSE <<EntryFields(Head(list))>> \o ListFields(Tail(list))

ArrayText(list) == ToString(ListFields(list))

StatsText(stats) ==
    ToString(<<stats.totalUsers, stats.totalSubmissions, stats.averageScore.num,
               stats.averageScore.den, stats.topScore, toISOString(stats.lastUpdated)>>)

BoardLists ==
    UNION {calculateOverallLeaderboard(db, t, timeRange) :
              db \in Tables, t \in BoardInstants, timeRange \in TimeRanges}
BoardStats == {getLeaderboardStats(db, t) : db \in Tables, t \in BoardInstants}

----------------------------------------------------------------------------
(* CacheService: the cache-aside facade *)

\* JavaScript values handed to and returned by the facade
JsNull == [t |-> "null", v |-> ""]
JsNumber(n) == [t |-> "number", v |-> n]
JsString(x) == [t |-> "string", v |-> x]
JsObject(x) == [t |-> "object", v |-> x]

\* JSON.stringify, as the pairs <<value, text>> of the values the model uses
JsonText ==
    { <<JsNull, "null">>,
      <<JsNumber("0"), "0">>,
      <<JsString(""), "\"\"">>,
      <<JsString("s"), "\"s\"">>,
      <<JsObject("rank"), "{\"rank\":1}">> }

\* an array of LeaderboardEntry and a LeaderboardStats object
JsArray(list) == [t |-> "array", v |-> list]
JsStats(stats) == [t |-> "stats", v |-> stats]

JSON_stringify(value) ==
    IF value.t = "array" THEN ArrayText(value.v)
    ELSE IF value.t = "stats" THEN StatsText(value.v)
    ELSE (CHOOSE p \in JsonText : p[1] = value)[2]

\* the pairs <<value, text>> of the arrays and of the stats objects the
\* repository can return: a text parses to the value JSON gives back, where
\* a Date has become a string
ArrayTexts == {<<JsArray(l), ArrayText(l)>> : l \in BoardLists}
StatsTexts == {<<JsStats(StatsAsJson(x)), StatsText(x)>> : x \in BoardStats}

\* JSON.parse: <<value>>, or <<>> when it throws a SyntaxError
JSON_parse(text) ==
    IF \E p \in JsonText : p[2] = text
    THEN Some((CHOOSE p \in JsonText : p[2] = text)[1])
    ELSE LET arrays == {q \in ArrayTexts : q[2] = text}
             stats == {q \in StatsTexts : q[2] = text}
         IN  IF arrays # {} THEN Some((CHOOSE q \in arrays : TRUE)[1])
             ELSE IF stats # {} THEN Some((CHOOSE q \in stats : TRUE)[1])
             ELSE NULL

\* options.prefix = "" stands for no prefix, options.ttl = 0 for no ttl
buildKey(key, prefix) == IF prefix # "" THEN <<prefix, ":">> \o key ELSE key

\* returns the value, JsNull on a miss and on any error
CacheService_get(c, t, key, options) ==
    LET fullKey == buildKey(key, options.prefix)
        g == get(c, t, fullKey)
    IN  IF g.ret = NULL \/ g.ret[1] = ""
        THEN [cache |-> g.cache, ret |-> JsNull]
        ELSE IF options.serialize
        THEN [cache |-> g.cache,
              ret |-> IF JSON_parse(g.ret[1]) = NULL THEN JsNull
                      ELSE JSON_parse(g.ret[1])[1]]
        ELSE [cache |-> g.cache, ret |-> JsString(g.ret[1])]

defaultTTL == 3600

CacheService_set(c, t, key, value, options) ==
    LET fullKey == buildKey(key, options.prefix)
        secs == IF options.ttl # 0 THEN options.ttl ELSE defaultTTL
        serializedValue == IF options.serialize THEN JSON_stringify(value)
                           ELSE value.v
    IN  [cache |-> setex(c, t, fullKey, secs, serializedValue).cache, ret |-> TRUE]

\* getOrSet that tests `if (cached)` instead of `cached !== null`
getOrSet_truthy(c, t, key, factory, options) ==
    LET cached == CacheService_get(c, t, key, options) IN
    IF cached.ret \notin {JsNull, JsNumber("0"), JsString("")}
    THEN [cache |-> cached.cache, result |-> Some(cached.ret), error |-> NULL, calls |-> 0]
    ELSE IF factory[1].ok
    THEN [cache |-> CacheService_set(cached.cache, t, key, factory[1].value, options).cache,
          result |-> Some(factory[1].value), error |-> NULL, calls |-> 1]
    ELSE IF factory[2].ok
    THEN [cache |-> cached.cache, result |-> Some(factory[2].value),
          error |-> NULL, calls |-> 2]
    ELSE [cache |-> cached.cache, result |-> NULL,
          error |-> Some(factory[2].error), calls |-> 2]

\* factory is the sequence of the outcomes of its successive invocations,
\* [ok |-> TRUE, value |-> v] or [ok |-> FALSE, error |-> e]; the result is
\* the value returned or the error thrown, and how often factory was invoked
getOrSet(c, t, key, factory, options) ==
    LET cached == CacheService_get(c, t, key, options) IN
    \* cached !== null
    IF cached.ret.t # "null"
    THEN [cache |-> cached.cache, result |-> Some(cached.ret), error |-> NULL, calls |-> 0]
    ELSE IF factory[1].ok
    THEN [cache |-> CacheService_set(cached.cache, t, key, factory[1].value, options).cache,
          result |-> Some(factory[1].value), error |-> NULL, calls |-> 1]
    \* factory threw: the catch block invokes it again
    ELSE IF factory[2].ok
    THEN [cache |-> cached.cache, result |-> Some(factory[2].value),
          error |-> NULL, calls |-> 2]
    ELSE [cache |-> cached.cache, result |-> NULL,
          error |-> Some(factory[2].error), calls |-> 2]

----------------------------------------------------------------------------
(* History of set(): what was written under a key, when and with which ttl *)

Forget(w, key) == {r \in w : r.key # key}

Record(w, t, key, value, secs) ==
    Forget(w, key) \cup {[key |-> key, value |-> value, at |-> t, secs |-> secs]}

\* the window of a rate-limit key: it opens with the first request that
\* finds no window open and stays open for `window` seconds; n counts the
\* requests handled in it
WindowOpen(sv, t, key) ==
    \E r \in sv : r.key = key /\ t <= r.start + r.window * 1000

Serve(sv, t, key, window) ==
    IF WindowOpen(sv, t, key)
    THEN {IF r.key = key THEN [r EXCEPT !.n = r.n + 1] ELSE r : r \in sv}
    ELSE {r \in sv : r.key # key}
             \cup {[key |-> key, start |-> t, window |-> window, n |-> 1]}

\* the keys a write removed from the map
KeySeq(c) == [i \in 1..Len(c) |-> c[i].key]
Range(f) == {f[i] : i \in DOMAIN f}
Evicted(c, c2) == Range(KeySeq(c)) \ Range(KeySeq(c2))

----------------------------------------------------------------------------
(* Specification of the store alone: any caller, any operation *)

Keys == {<<"a">>, <<"b">>, <<"c">>}
CounterKeys == {<<"c">>}                    \* the keys incr and decr are applied to
Values == {"x"}
Ttls == {0, 1}
Patterns == {<<"*">>, <<"a">>}
KeyLists == {<<<<"a">>, <<"b">>>>, <<<<"c">>, <<"c">>>>}

\* Date.now() at start-up and the later instants the store is observed at
Instants == {10000, 11000, 11500}

\* the callers whose calls may be suspended, and a caller with no call
Callers == {"p1", "p2"}
Idle == [pc |-> "idle"]

Init ==
    /\ cache = <<>>
    /\ now = 10000
    /\ last = [op |-> "init"]
    /\ written = {}
    /\ served = {}
    /\ submissions = [id \in SubmissionIds |->
                         [userId |-> Owner[id], status |-> "PENDING", score |-> NULL]]
    /\ emitted = NULL
    /\ inflight = [p \in Callers \cup {"reviewer"} |-> Idle]

Get(key) ==
    LET r == get(cache, now, key) IN
    /\ cache' = r.cache
    /\ last' = [op |-> "get", key |-> key, ret |-> r.ret]
    /\ UNCHANGED <<now, written, served, submissions, emitted, inflight>>

Set(key, value, secs) ==
    LET r == set(cache, now, key, value, secs) IN
    /\ cache' = r.cache
    /\ last' = [op |-> "set", key |-> key, value |-> value, secs |-> secs, ret |-> r.ret,
                evicted |-> Evicted(cache, r.cache)]
    /\ written' = Record(written, now, key, value, secs)
    /\ UNCHANGED <<now, served, submissions, emitted, inflight>>

Setex(key, secs, value) ==
    LET r == setex(cache, now, key, secs, value) IN
    /\ cache' = r.cache
    /\ last' = [op |-> "setex", key |-> key, value |-> value, secs |-> secs, ret |-> r.ret,
                evicted |-> Evicted(cache, r.cache)]
    /\ written' = Record(written, now, key, value, secs)
    /\ UNCHANGED <<now, served, submissions, emitted, inflight>>

Del(key) ==
    LET r == del(cache, key) IN
    /\ cache' = r.cache
    /\ last' = [op |-> "del", key |-> key, ret |-> r.ret]
    /\ UNCHANGED <<now, written, served, submissions, emitted, inflight>>

DelMultiple(ks) ==
    LET r == delMultiple(cache, ks) IN
    /\ cache' = r.cache
    /\ last' = [op |-> "delMultiple", keys |-> ks, ret |-> r.ret]
    /\ UNCHANGED <<now, written, served, submissions, emitted, inflight>>

Exists(key) ==
    LET r == exists(cache, now, key) IN
    /\ cache' = r.cache
    /\ last' = [op |-> "exists", key |-> key, ret |-> r.ret]
    /\ UNCHANGED <<now, written, served, submissions, emitted, inflight>>

Expire(key, secs) ==
    LET r == expire(cache, now, key, secs) IN
    /\ cache' = r.cache
    /\ last' = [op |-> "expire", key |-> key, secs |-> secs, ret |-> r.ret]
    /\ written' = Forget(written, key)
    /\ UNCHANGED <<now, served, submissions, emitted, inflight>>

Ttl(key) ==
    /\ last' = [op |-> "ttl", key |-> key, ret |-> ttl(cache, now, key)]
    /\ UNCHANGED <<cache, now, written, served, submissions, emitted, inflight>>

\* cap: the counter value incr is not taken beyond
Incr(key, cap) ==
    LET r == incr(cache, now, key) IN
    /\ currentValue(cache, now, key) < cap
    /\ cache' = r.cache
    /\ last' = [op |-> "incr", key |-> key, ret |-> r.ret]
    /\ written' = Forget(written, key)
    /\ UNCHANGED <<now, served, submissions, emitted, inflight>>

Decr(key) ==
    LET r == decr(cache, now, key) IN
    /\ cache' = r.cache
    /\ last' = [op |-> "decr", key |-> key, ret |-> r.ret]
    /\ written' = Forget(written, key)
    /\ UNCHANGED <<now, served, submissions, emitted, inflight>>

KeysOp(pattern) ==
    /\ last' = [op |-> "keys", pattern |-> pattern, ret |-> keys(cache, now, pattern)]
    /\ UNCHANGED <<cache, now, written, served, submissions, emitted, inflight>>

\* the setInterval callback
CleanupExpired ==
    /\ cache' = cleanupExpired(cache, now)
    /\ last' = [op |-> "cleanupExpired", cleaned |-> Len(cache) - Len(cache')]
    /\ UNCHANGED <<now, written, served, submissions, emitted, inflight>>

\* time passes: the clock moves to a later instant of ts
Tick(ts) ==
    /\ \E t \in ts : t > now /\ now' = t
    /\ last' = [op |-> "tick"]
    /\ UNCHANGED <<cache, written, served, submissions, emitted, inflight>>

Next ==
    \/ \E key \in Keys : Get(key)
    \/ \E key \in Keys, value \in Values, secs \in Ttls : Set(key, value, secs)
    \/ \E key \in Keys, value \in Values : Setex(key, 1, value)
    \/ \E key \in Keys : Del(key)
    \/ \E ks \in KeyLists : DelMultiple(ks)
    \/ \E key \in Keys : Exists(key)
    \/ \E key \in Keys : Expire(key, 1)
    \/ \E key \in Keys : Ttl(key)
    \/ \E key \in CounterKeys : Incr(key, MaxCount)
    \/ \E key \in CounterKeys : Decr(key)
    \/ \E pattern \in Patterns : KeysOp(pattern)
    \/ CleanupExpired
    \/ Tick(Instants)

Spec == Init /\ [][Next]_vars

\* counters alone: incr and decr among writes, deletions and expiry
NextCounter ==
    \/ \E key \in CounterKeys : Incr(key, MaxCounter)
    \/ \E key \in CounterKeys : Decr(key)
    \/ \E key \in CounterKeys, value \in Values, secs \in Ttls : Set(key, value, secs)
    \/ \E key \in CounterKeys : Expire(key, 1)
    \/ \E key \in CounterKeys : Del(key)
    \/ \E key \in CounterKeys : Get(key)
    \/ CleanupExpired
    \/ Tick(Instants)

SpecCounter == Init /\ [][NextCounter]_vars

----------------------------------------------------------------------------
(* Requests through the guard, tokens through the blacklist *)

\* process.env.NODE_ENV === 'development'
isDevelopment == FALSE

Request(ip, userId, endpoint, method) ==
    [ip |-> ip, cfConnectingIP |-> NULL, forwarded |-> NULL, realIP |-> NULL,
     userId |-> userId, endpoint |-> endpoint, method |-> method]

Requests ==
    { Request("10.0.0.1", NULL, <<"/auth/reset">>, "POST"),
      Request("10.0.0.1", NULL, <<"/auth/login">>, "POST") }

RateInstants == {10000, 460000, 910000, 910500, 3610000, 3610500}
SharedInstants == {10000, 460000, 910000, 910500}

Tokens == {"t1", "t2"}
Users == {"u1", "u2"}
Lifetimes == {60, 7200}
BlacklistInstants == {10000, 3610000, 3610500, 7210000, 7210500}

\* counted: whether the history of windows (served) follows this request
CanActivate(request, counted) ==
    LET r == canActivate(cache, now, request, isDevelopment)
        limits == getRateLimit(request.endpoint, request.method, request.userId,
                               isDevelopment)
    IN  /\ counted => \A w \in served :
                          (w.key = r.key /\ WindowOpen(served, now, r.key))
                              => w.n < MaxServed
        /\ cache' = r.cache
        /\ last' = [op |-> "canActivate", key |-> r.key, limits |-> limits,
                    count |-> r.count, admitted |-> r.admitted,
                    remaining |-> r.remaining, exception |-> r.exception,
                    evicted |-> Evicted(cache, r.cache)]
        /\ served' = IF counted THEN Serve(served, now, r.key, limits.window)
                      ELSE served
        /\ written' = IF ~r.admitted THEN written
                      ELSE IF r.count = Some(0)
                      THEN Record(written, now, r.key, "1", limits.window)
                      ELSE Forget(written, r.key)
        /\ UNCHANGED <<now, submissions, emitted, inflight>>

BlacklistToken(token, userId, expiresIn) ==
    LET c2 == blacklistToken(cache, now, token, userId, expiresIn)
        key == <<"blacklist:", token>>
    IN  /\ cache' = c2
        /\ last' = [op |-> "blacklistToken", key |-> key, token |-> token,
                    userId |-> userId, expiresIn |-> expiresIn,
                    evicted |-> Evicted(cache, c2)]
        /\ written' = IF MapHas(c2, key)
                      THEN Record(written, now, key, userId,
                                  (MapGet(c2, key)[1].expiresAt - now) \div 1000)
                      ELSE written
        /\ UNCHANGED <<now, served, submissions, emitted, inflight>>

IsTokenBlacklisted(token) ==
    LET r == isTokenBlacklisted(cache, now, token) IN
    /\ cache' = r.cache
    /\ last' = [op |-> "isTokenBlacklisted", key |-> <<"blacklist:", token>>,
                token |-> token, ret |-> r.ret]
    /\ UNCHANGED <<now, written, served, submissions, emitted, inflight>>

BlacklistAllUserTokens(userId) ==
    LET c2 == blacklistAllUserTokens(cache, now, userId) IN
    /\ cache' = c2
    /\ last' = [op |-> "blacklistAllUserTokens", userId |-> userId,
                evicted |-> Evicted(cache, c2)]
    /\ UNCHANGED <<now, written, served, submissions, emitted, inflight>>

\* one identifier and endpoint at a time, nothing else using the store
NextSolo ==
    \/ \E request \in Requests : CanActivate(request, TRUE)
    \/ CleanupExpired
    \/ Tick(RateInstants)

SpecSolo == Init /\ [][NextSolo]_vars

\* the guard sharing the store with the blacklist
NextRate ==
    \/ CanActivate(Request("10.0.0.1", NULL, <<"/auth/login">>, "POST"), FALSE)
    \/ \E token \in Tokens : BlacklistToken(token, "u1", 60)
    \/ CleanupExpired
    \/ Tick(SharedInstants)

SpecRate == Init /\ [][NextRate]_vars

\* the blacklist sharing the store with the guard
NextBlacklist ==
    \/ \E token \in Tokens, userId \in Users, expiresIn \in Lifetimes :
          BlacklistToken(token, userId, expiresIn)
    \/ \E token \in Tokens : IsTokenBlacklisted(token)
    \/ \E userId \in Users : BlacklistAllUserTokens(userId)
    \/ Set(<<"other">>, "x", 0)
    \/ CleanupExpired
    \/ Tick(BlacklistInstants)

SpecBlacklist == Init /\ [][NextBlacklist]_vars

----------------------------------------------------------------------------
(* Reads through the facade *)

FacadeKeys == {<<"user:rank:", "u1">>}

\* getUserRank's options, and the default options; every caller of the
\* facade leaves serialize at its default, true
Options ==
    { [ttl |-> 60, prefix |-> "user", serialize |-> TRUE],
      [ttl |-> 0, prefix |-> "", serialize |-> TRUE] }

Returns(v) == [ok |-> TRUE, value |-> v]
Throws(e) == [ok |-> FALSE, error |-> e]

FactoryValues == {p[1] : p \in JsonText}

Factories ==
    {<<Returns(v), Returns(v)>> : v \in FactoryValues}
        \cup {<<Throws("E1"), Returns(JsObject("rank"))>>,
              <<Throws("E1"), Throws("E2")>>}

FacadeInstants == {10000, 70000, 70500, 3610000, 3610500}

GetOrSet(key, factory, options) ==
    LET r == getOrSet(cache, now, key, factory, options)
        fullKey == buildKey(key, options.prefix)
    IN  /\ cache' = r.cache
        /\ last' = [op |-> "getOrSet", key |-> key, options |-> options,
                    factory |-> factory, result |-> r.result, error |-> r.error,
                    calls |-> r.calls]
        /\ written' = IF r.calls = 1 /\ MapHas(r.cache, fullKey)
                      THEN Record(written, now, fullKey, MapGet(r.cache, fullKey)[1].value,
                                  (MapGet(r.cache, fullKey)[1].expiresAt - now) \div 1000)
                      ELSE written
        /\ UNCHANGED <<now, served, submissions, emitted, inflight>>

FacadeGet(key, options) ==
    LET r == CacheService_get(cache, now, key, options) IN
    /\ cache' = r.cache
    /\ last' = [op |-> "CacheService.get", key |-> key, options |-> options,
                ret |-> r.ret]
    /\ UNCHANGED <<now, written, served, submissions, emitted, inflight>>

NextFacade ==
    \/ \E key \in FacadeKeys, factory \in Factories, options \in Options :
          GetOrSet(key, factory, options)
    \/ \E key \in FacadeKeys, options \in Options : FacadeGet(key, options)
    \/ \E key \in FacadeKeys, options \in Options : Del(buildKey(key, options.prefix))
    \/ CleanupExpired
    \/ Tick(FacadeInstants)

SpecFacade == Init /\ [][NextFacade]_vars

----------------------------------------------------------------------------
(* Claims about the store *)

IsExpired(e, t) == e.expiresAt # 0 /\ t > e.expiresAt

\* C1: in every reachable state, a stored entry with an expiry that has
\* passed (now > expiresAt) reads as absent through get, exists and keys,
\* purged or not; a stored entry without expiry reads as present.
C1_ExpiredReadsAbsent ==
    \A i \in 1..Len(cache) :
        LET e == cache[i] IN
        /\ IsExpired(e, now) =>
              /\ get(cache, now, e.key).ret = NULL
              /\ exists(cache, now, e.key).ret = FALSE
              /\ \A p \in Patterns : e.key \notin Range(keys(cache, now, p))
        /\ e.expiresAt = 0 =>
              /\ get(cache, now, e.key).ret = Some(e.value)
              /\ exists(cache, now, e.key).ret = TRUE
              /\ e.key \in Range(keys(cache, now, <<"*">>))
        /\ (last.op = "keys" /\ IsExpired(e, now)) => e.key \notin Range(last.ret)

\* an expired entry is still stored and keys("*") has just left it out
C1_Witness ==
    /\ last.op = "keys"
    /\ last.pattern = <<"*">>
    /\ \E i \in 1..Len(cache) :
          IsExpired(cache[i], now) /\ cache[i].key \notin Range(last.ret)
    /\ \E i \in 1..Len(cache) :
          cache[i].expiresAt = 0 /\ cache[i].key \in Range(last.ret)

\* C2 as stated: get right after set(key, value, ttl > 0) returns value, and
\* get when ttl seconds or more have passed since that set returns none.
C2_Original ==
    /\ (last.op \in {"set", "setex"} /\ last.secs > 0) =>
          get(cache, now, last.key).ret = Some(last.value)
    /\ last.op = "get" =>
          \A r \in written :
              (r.key = last.key /\ r.secs > 0 /\ now >= r.at + r.secs * 1000)
                  => last.ret = NULL

\* C2 amended: get right after set(key, value, ttl > 0) returns value, and
\* get when MORE than ttl seconds have passed since that set returns none
\* (at exactly ttl seconds the entry is still live).
C2_SetThenGet ==
    /\ (last.op \in {"set", "setex"} /\ last.secs > 0) =>
          get(cache, now, last.key).ret = Some(last.value)
    /\ last.op = "get" =>
          \A r \in written :
              (r.key = last.key /\ r.secs > 0 /\ now > r.at + r.secs * 1000)
                  => last.ret = NULL

\* a get issued more than ttl seconds after the set of its key returned none
C2_Witness ==
    /\ last.op = "get"
    /\ last.ret = NULL
    /\ \E r \in written :
          r.key = last.key /\ r.secs > 0 /\ now > r.at + r.secs * 1000

\* C3: the map never holds more than maxSize entries.
C3_SizeBounded == Len(cache) <= MaxSize

\* C4: a set of a key that is not stored, into a map holding maxSize entries,
\* removes exactly the first-inserted entry and leaves the others as they
\* were (get of the evicted key is none, get of the others is unchanged, get
\* of the new key is its value); a set of a stored key removes nothing and
\* keeps the insertion order.
C4_FifoEviction ==
    [][ last'.op \in {"set", "setex"} =>
          LET key == last'.key IN
          IF MapHas(cache, key)
          THEN KeySeq(cache') = KeySeq(cache)
          ELSE IF Len(cache) = MaxSize
          THEN /\ last'.evicted = {cache[1].key}
               /\ SubSeq(cache', 1, Len(cache') - 1) = Tail(cache)
               /\ cache'[Len(cache')].key = key
               /\ get(cache', now', cache[1].key).ret = NULL
               /\ get(cache', now', key).ret = Some(last'.value)
               /\ \A j \in 2..Len(cache) :
                     get(cache', now', cache[j].key).ret = get(cache, now, cache[j].key).ret
          ELSE Len(cache) < MaxSize => last'.evicted = {}
      ]_vars

\* c was set into a full map holding a and b, a inserted first: a is gone
C4_Witness ==
    /\ last.op = "set"
    /\ last.key = <<"c">>
    /\ last.evicted = {<<"a">>}
    /\ KeySeq(cache) = << <<"b">>, <<"c">> >>

----------------------------------------------------------------------------
(* Claims about the rate limiter *)

\* C5: of the requests of one identifier on one endpoint handled inside one
\* window, the first max are admitted and every later one is rejected with
\* remaining = 0 and 0 <= retryAfter <= window.
C5_FirstMaxAdmitted ==
    last.op = "canActivate" =>
        \A w \in served :
            w.key = last.key =>
                /\ w.n <= last.limits.max => last.admitted /\ last.exception = NULL
                /\ w.n > last.limits.max =>
                      /\ ~last.admitted
                      /\ last.exception # NULL
                      /\ last.exception[1].remaining = 0
                      /\ last.exception[1].retryAfter >= 0
                      /\ last.exception[1].retryAfter <= last.limits.window

\* the sixth request of a window under {max: 5, window: 900} was rejected
C5_Witness ==
    /\ last.op = "canActivate"
    /\ last.limits = [max |-> 5, window |-> 900]
    /\ ~last.admitted
    /\ \E w \in served : w.key = last.key /\ w.n = 6

IsRateKey(key) == key # <<>> /\ Head(key) = "rate_limit:"

IsLive(c, t, key) == MapHas(c, key) /\ ~IsExpired(MapGet(c, key)[1], t)

Count(c, key) == ParseIntOr0(MapGet(c, key)[1].value)

\* the step writes a key that is not stored into a full map whose oldest
\* entry is key: the FIFO capacity rule removes key
CapacityEvicts(key) ==
    /\ Len(cache) >= MaxSize
    /\ cache[1].key = key
    /\ last'.op \in {"set", "setex", "blacklistToken", "canActivate"}
    /\ ~MapHas(cache, last'.key)

----------------------------------------------------------------------------
(* Claims about the token blacklist *)

\* C7: a token that is blacklisted stays blacklisted until its entry's TTL
\* ends, whatever operation is applied to the store.
C7_RevokedStaysRevoked ==
    [][ \A token \in Tokens :
          LET key == <<"blacklist:", token>> IN
          (isTokenBlacklisted(cache, now, token).ret
              /\ now' < MapGet(cache, key)[1].expiresAt)
            => isTokenBlacklisted(cache', now', token).ret
      ]_vars

\* C8 as stated: blacklistToken stores the entry with TTL = max(ttlSeconds,
\* 3600), the token is blacklisted right afterwards, and it is no longer
\* blacklisted when that TTL or more has passed.
C8_Original ==
    /\ last.op = "blacklistToken" =>
          /\ MapGet(cache, last.key) =
                Some([key |-> last.key, value |-> last.userId,
                      expiresAt |-> now + Max(last.expiresIn, 3600) * 1000])
          /\ isTokenBlacklisted(cache, now, last.token).ret
    /\ last.op = "isTokenBlacklisted" =>
          \A r \in written :
              (r.key = last.key /\ now >= r.at + r.secs * 1000) => ~last.ret

\* C8 amended: the same, the token being no longer blacklisted when MORE
\* than that TTL has passed (at exactly the TTL it still is).
C8_FloorOneHour ==
    /\ last.op = "blacklistToken" =>
          /\ MapGet(cache, last.key) =
                Some([key |-> last.key, value |-> last.userId,
                      expiresAt |-> now + Max(last.expiresIn, 3600) * 1000])
          /\ isTokenBlacklisted(cache, now, last.token).ret
    /\ last.op = "isTokenBlacklisted" =>
          \A r \in written :
              (r.key = last.key /\ now > r.at + r.secs * 1000) => ~last.ret

\* a token blacklisted with the one-hour floor was checked after more than
\* an hour and found not blacklisted
C8_Witness ==
    /\ last.op = "isTokenBlacklisted"
    /\ ~last.ret
    /\ \E r \in written :
          r.key = last.key /\ r.secs = 3600 /\ now > r.at + r.secs * 1000

----------------------------------------------------------------------------
(* Claims about the facade *)

\* C9: when get(key, opts) would return a value, getOrSet(key, factory, opts)
\* returns that value, does not invoke factory and leaves the store as it was.
C9_HitSkipsFactory ==
    [][ last'.op = "getOrSet" =>
          LET hit == CacheService_get(cache, now, last'.key, last'.options).ret IN
          hit # JsNull =>
              /\ last'.result = Some(hit)
              /\ last'.error = NULL
              /\ last'.calls = 0
              /\ cache' = cache
      ]_vars

\* getOrSet found the cached number 0 and returned it without the factory
C9_Witness ==
    /\ last.op = "getOrSet"
    /\ last.calls = 0
    /\ last.result = Some(JsNumber("0"))
    /\ last.factory[1] # Returns(JsNumber("0"))

\* C10: when key is absent or expired and factory succeeds, getOrSet invokes
\* factory once, returns its result and stores it with the configured TTL: a
\* get made right away returns the same value and a second getOrSet does not
\* invoke factory, whatever value the factory returned.
C10_MissStoresResult ==
    [][ last'.op = "getOrSet" =>
          LET key == last'.key
              options == last'.options
              factory == last'.factory
              fullKey == buildKey(key, options.prefix)
              secs == IF options.ttl # 0 THEN options.ttl ELSE 3600
          IN  (CacheService_get(cache, now, key, options).ret = JsNull
                  /\ factory[1].ok) =>
                /\ last'.calls = 1
                /\ last'.result = Some(factory[1].value)
                /\ MapHas(cache', fullKey)
                /\ MapGet(cache', fullKey)[1].expiresAt = now + secs * 1000
                /\ CacheService_get(cache', now', key, options).ret = factory[1].value
                /\ getOrSet(cache', now', key, factory, options).calls = 0
      ]_vars

----------------------------------------------------------------------------
(* The store raising errors.  faults is the set of MemoryCacheService      *)
(* methods that throw when they are called during the operation; a method  *)
(* that throws leaves the map as it was.                                   *)

FacadeFaults == {{}, {"get"}, {"setex"}, {"get", "setex"}}
GuardFaults == {{}, {"get"}, {"setex"}, {"incr"}, {"ttl"}}
BlacklistFaults == {{}, {"get"}}

FaultFactories ==
    { <<Returns(JsObject("rank")), Returns(JsObject("rank"))>>,
      <<Returns(JsString("s")), Returns(JsString("s"))>>,
      <<Throws("E1"), Returns(JsObject("rank"))>> }

FaultInstants == {10000, 70000, 70500}

\* CacheService.get: its catch block turns the error into null
CacheService_getOn(c, t, key, options, faults) ==
    IF "get" \in faults
    THEN [cache |-> c, ret |-> JsNull, raised |-> TRUE]
    ELSE With(CacheService_get(c, t, key, options),
              LAMBDA g : [cache |-> g.cache, ret |-> g.ret, raised |-> FALSE])

\* CacheService.set: its catch block turns the error into false
CacheService_setOn(c, t, key, value, options, faults) ==
    IF "setex" \in faults
    THEN [cache |-> c, ret |-> FALSE, raised |-> TRUE]
    ELSE [cache |-> CacheService_set(c, t, key, value, options).cache,
          ret |-> TRUE, raised |-> FALSE]

\* getOrSet that lets the error of the cache read reach its caller
getOrSetOn_failsClosed(c, t, key, factory, options, faults) ==
    IF "get" \in faults
    THEN [cache |-> c, result |-> NULL, error |-> Some("CacheError"), calls |-> 0,
          stored |-> FALSE, raised |-> TRUE]
    ELSE With(getOrSet(c, t, key, factory, options),
              LAMBDA r : [cache |-> r.cache, result |-> r.result, error |-> r.error,
                          calls |-> r.calls, stored |-> FALSE, raised |-> FALSE])

\* getOrSet over a store that may throw: stored tells whether the write of
\* the factory's value completed, raised whether a store method threw
getOrSetOn(c, t, key, factory, options, faults) ==
    With(CacheService_getOn(c, t, key, options, faults), LAMBDA cached :
        IF cached.ret.t # "null"
        THEN [cache |-> cached.cache, result |-> Some(cached.ret), error |-> NULL,
              calls |-> 0, stored |-> FALSE, raised |-> cached.raised]
        ELSE IF factory[1].ok
        THEN With(CacheService_setOn(cached.cache, t, key, factory[1].value,
                                     options, faults),
                  LAMBDA w : [cache |-> w.cache, result |-> Some(factory[1].value),
                              error |-> NULL, calls |-> 1, stored |-> w.ret,
                              raised |-> cached.raised \/ w.raised])
        ELSE IF factory[2].ok
        THEN [cache |-> cached.cache, result |-> Some(factory[2].value),
              error |-> NULL, calls |-> 2, stored |-> FALSE, raised |-> cached.raised]
        ELSE [cache |-> cached.cache, result |-> NULL,
              error |-> Some(factory[2].error), calls |-> 2, stored |-> FALSE,
              raised |-> cached.raised])

GetOrSetOn(key, factory, options, faults) ==
    \E r \in {getOrSetOn(cache, now, key, factory, options, faults)} :
    LET fullKey == buildKey(key, options.prefix)
    IN  /\ cache' = r.cache
        /\ last' = [op |-> "getOrSet", key |-> key, options |-> options,
                    factory |-> factory, faults |-> faults, result |-> r.result,
                    error |-> r.error, calls |-> r.calls, stored |-> r.stored,
                    raised |-> r.raised]
        /\ written' = IF r.stored
                      THEN Record(written, now, fullKey, MapGet(r.cache, fullKey)[1].value,
                                  (MapGet(r.cache, fullKey)[1].expiresAt - now) \div 1000)
                      ELSE written
        /\ UNCHANGED <<now, served, submissions, emitted, inflight>>

\* the facade over a store whose methods may throw
NextFacadeFaults ==
    \/ \E key \in FacadeKeys, factory \in FaultFactories, options \in Options,
          faults \in FacadeFaults :
          GetOrSetOn(key, factory, options, faults)
    \/ CleanupExpired
    \/ Tick(FaultInstants)

SpecFacadeFaults == Init /\ [][NextFacadeFaults]_vars

\* C12 as stated: when a store method throws during getOrSet and factory
\* succeeds, getOrSet invokes factory once, returns its result, propagates no
\* error and writes no entry for key.
C12_Original ==
    (last.op = "getOrSet" /\ "raised" \in DOMAIN last /\ last.raised
        /\ last.factory[1].ok) =>
        /\ last.calls = 1
        /\ last.result = Some(last.factory[1].value)
        /\ last.error = NULL
        /\ ~last.stored

\* C12 amended: the same, except that an entry for key is written exactly
\* when the write step itself did not throw (an error of the read step alone
\* is taken as a miss and the factory's result is cached as usual).
C12_FailsOpen ==
    (last.op = "getOrSet" /\ "raised" \in DOMAIN last /\ last.raised
        /\ last.factory[1].ok) =>
        /\ last.calls = 1
        /\ last.result = Some(last.factory[1].value)
        /\ last.error = NULL
        /\ last.stored <=> "setex" \notin last.faults
        /\ last.stored =>
              MapGet(cache, buildKey(last.key, last.options.prefix))[1].value
                  = JSON_stringify(last.factory[1].value)

\* the write of the factory's value threw and getOrSet returned the value
C12_Witness ==
    /\ last.op = "getOrSet"
    /\ "raised" \in DOMAIN last
    /\ last.raised
    /\ last.faults = {"setex"}
    /\ last.result = Some(JsObject("rank"))
    /\ last.calls = 1
    /\ ~MapHas(cache, buildKey(last.key, last.options.prefix))

\* C11: when key is absent or expired and factory throws, getOrSet fails with
\* exactly the error factory threw, factory has been invoked once only, and
\* nothing is stored under key.
C11_FactoryErrorPropagates ==
    [][ last'.op = "getOrSet" =>
          LET key == last'.key
              options == last'.options
              factory == last'.factory
              fullKey == buildKey(key, options.prefix)
          IN  (CacheService_get(cache, now, key, options).ret = JsNull
                  /\ ~factory[1].ok) =>
                /\ last'.result = NULL
                /\ last'.error = Some(factory[1].error)
                /\ last'.calls = 1
                /\ ~MapHas(cache', fullKey)
      ]_vars

----------------------------------------------------------------------------
(* The guard and the blacklist over a store whose methods may throw *)

\* getTTL: its catch block turns the error of ttl into 0
getTTLOn(c, t, key, faults) == IF "ttl" \in faults THEN 0 ELSE getTTL(c, t, key)

\* canActivate that answers an error of the store by rejecting the request
canActivateOn_failsClosed(c, t, request, isDev, faults) ==
    LET r == canActivate(c, t, request, isDev)
        limits == getRateLimit(request.endpoint, request.method, request.userId, isDev)
    IN  IF faults \cap {"get", "setex", "incr"} # {}
        THEN [cache |-> c, key |-> r.key, count |-> NULL, admitted |-> FALSE,
              remaining |-> NULL,
              exception |-> Some([retryAfter |-> limits.window, limit |-> limits.max,
                                  remaining |-> 0]),
              raisedBy |-> faults]
        ELSE [cache |-> r.cache, key |-> r.key, count |-> r.count,
              admitted |-> r.admitted, remaining |-> r.remaining,
              exception |-> r.exception, raisedBy |-> {}]

\* canActivate over a store that may throw; raisedBy is the set of store
\* methods that were called and threw
canActivateOn(c, t, request, isDev, faults) ==
    LET limits == getRateLimit(request.endpoint, request.method, request.userId, isDev)
        key == rateLimitKey(request)
        g == get(c, t, key)
        count == IF g.ret # NULL /\ g.ret[1] # "" THEN ParseInt(g.ret[1]) ELSE Some(0)
    IN  IF "get" \in faults
        \* the catch block: not an HttpException, the request is allowed
        THEN [cache |-> c, key |-> key, count |-> NULL, admitted |-> TRUE,
              remaining |-> NULL, exception |-> NULL, raisedBy |-> {"get"}]
        ELSE IF count # NULL /\ count[1] >= limits.max
        THEN [cache |-> g.cache, key |-> key, count |-> count, admitted |-> FALSE,
              remaining |-> setRateLimitHeaders(count, limits),
              exception |-> Some([retryAfter |-> limits.window
                                                   - getTTLOn(g.cache, t, key, faults),
                                  limit |-> limits.max, remaining |-> 0]),
              raisedBy |-> faults \cap {"ttl"}]
        ELSE IF count = Some(0)
        THEN [cache |-> IF "setex" \in faults THEN g.cache
                        ELSE setex(g.cache, t, key, limits.window, "1").cache,
              key |-> key, count |-> count, admitted |-> TRUE,
              remaining |-> setRateLimitHeaders(count, limits), exception |-> NULL,
              raisedBy |-> faults \cap {"setex"}]
        ELSE [cache |-> IF "incr" \in faults THEN g.cache
                        ELSE incr(g.cache, t, key).cache,
              key |-> key, count |-> count, admitted |-> TRUE,
              remaining |-> setRateLimitHeaders(count, limits), exception |-> NULL,
              raisedBy |-> faults \cap {"incr"}]

CanActivateOn(request, faults) ==
    LET r == canActivateOn(cache, now, request, isDevelopment, faults)
        limits == getRateLimit(request.endpoint, request.method, request.userId,
                               isDevelopment)
    IN  /\ cache' = r.cache
        /\ last' = [op |-> "canActivate", key |-> r.key, limits |-> limits,
                    count |-> r.count, admitted |-> r.admitted,
                    remaining |-> r.remaining, exception |-> r.exception,
                    faults |-> faults, raisedBy |-> r.raisedBy,
                    before |-> get(cache, now, r.key).ret]
        /\ UNCHANGED <<now, written, served, submissions, emitted, inflight>>

NextGuardFaults ==
    \/ \E faults \in GuardFaults :
          CanActivateOn(Request("10.0.0.1", NULL, <<"/auth/login">>, "POST"), faults)
    \/ CleanupExpired
    \/ Tick(SharedInstants)

SpecGuardFaults == Init /\ [][NextGuardFaults]_vars

\* C13: a request during which get, setex or incr of the counter store threw
\* is admitted and no rejection is raised; a request is rejected only when
\* the counter it read is a live count >= max.
C13_GuardFailsOpen ==
    last.op = "canActivate" =>
        /\ last.raisedBy \cap {"get", "setex", "incr"} # {} =>
              last.admitted /\ last.exception = NULL
        /\ ~last.admitted =>
              /\ last.exception # NULL
              /\ last.before # NULL
              /\ ParseIntOr0(last.before[1]) >= last.limits.max

\* the read of a counter standing at max threw and the request was admitted
C13_Witness ==
    /\ last.op = "canActivate"
    /\ last.raisedBy = {"get"}
    /\ last.admitted
    /\ last.before = Some(toString(last.limits.max))

\* isTokenBlacklisted that lets the error of the store reach its caller
isTokenBlacklistedOn_rethrows(c, t, token, faults) ==
    IF "get" \in faults
    THEN [cache |-> c, ret |-> FALSE, error |-> Some("CacheError"), raised |-> TRUE]
    ELSE [cache |-> isTokenBlacklisted(c, t, token).cache,
          ret |-> isTokenBlacklisted(c, t, token).ret,
          error |-> NULL, raised |-> FALSE]

\* isTokenBlacklisted over a store that may throw: error is what reaches the
\* caller, JwtStrategy.validate
isTokenBlacklistedOn(c, t, token, faults) ==
    IF "get" \in faults
    \* the catch block: fail open
    THEN [cache |-> c, ret |-> FALSE, error |-> NULL, raised |-> TRUE]
    ELSE [cache |-> isTokenBlacklisted(c, t, token).cache,
          ret |-> isTokenBlacklisted(c, t, token).ret,
          error |-> NULL, raised |-> FALSE]

IsTokenBlacklistedOn(token, faults) ==
    LET r == isTokenBlacklistedOn(cache, now, token, faults) IN
    /\ cache' = r.cache
    /\ last' = [op |-> "isTokenBlacklisted", key |-> <<"blacklist:", token>>,
                token |-> token, ret |-> r.ret, error |-> r.error,
                raised |-> r.raised,
                stored |-> isTokenBlacklisted(cache, now, token).ret]
    /\ UNCHANGED <<now, written, served, submissions, emitted, inflight>>

NextBlacklistFaults ==
    \/ \E token \in Tokens, userId \in Users, expiresIn \in Lifetimes :
          BlacklistToken(token, userId, expiresIn)
    \/ \E token \in Tokens, faults \in BlacklistFaults :
          IsTokenBlacklistedOn(token, faults)
    \/ CleanupExpired
    \/ Tick(BlacklistInstants)

SpecBlacklistFaults == Init /\ [][NextBlacklistFaults]_vars

\* C14: when the store throws during isTokenBlacklisted(t) the result is
\* false and no error reaches the caller, whether or not t is blacklisted;
\* when the store does not throw the result is what the store holds.
C14_BlacklistFailsOpen ==
    last.op = "isTokenBlacklisted" =>
        /\ last.error = NULL
        /\ last.raised => ~last.ret
        /\ ~last.raised => (last.ret <=> last.stored)

\* the store threw while checking a token that is blacklisted: not blacklisted
C14_Witness ==
    /\ last.op = "isTokenBlacklisted"
    /\ last.raised
    /\ last.stored
    /\ ~last.ret
    /\ last.error = NULL

----------------------------------------------------------------------------
(* LeaderboardsService and SubmissionsService.review *)

\* Array.prototype.slice(start, end)
Slice(list, start, end) ==
    LET len == Len(list)
        rel(k) == IF k < 0 THEN Max(len + k, 0) ELSE Min(k, len)
    IN  SubSeq(list, rel(start) + 1, rel(end))

\* Math.ceil(a / b), b > 0
Ceil(a, b) == (a + b - 1) \div b

\* paginateResults that cuts the page one entry late
paginateResults_shifted(leaderboard, page, limit) ==
    LET startIndex == (page - 1) * limit + 1
        endIndex == startIndex + limit
    IN  [data |-> Slice(leaderboard, startIndex, endIndex),
         pagination |-> [page |-> page, limit |-> limit,
                         total |-> Len(leaderboard),
                         totalPages |-> Ceil(Len(leaderboard), limit),
                         hasNext |-> endIndex < Len(leaderboard),
                         hasPrev |-> page > 1]]

paginateResults(leaderboard, page, limit) ==
    LET startIndex == (page - 1) * limit
        endIndex == startIndex + limit
    IN  [data |-> Slice(leaderboard, startIndex, endIndex),
         pagination |-> [page |-> page, limit |-> limit,
                         total |-> Len(leaderboard),
                         totalPages |-> Ceil(Len(leaderboard), limit),
                         hasNext |-> endIndex < Len(leaderboard),
                         hasPrev |-> page > 1]]

\* `leaderboard:overall:${timeRange || 'all'}`
\* overallKey that leaves the time range out of the key
overallKey_oneKey(timeRange) == <<"leaderboard:overall:", "all">>

overallKey(timeRange) ==
    <<"leaderboard:overall:", IF timeRange # "" THEN timeRange ELSE "all">>

\* computed is the list the repository returns if the factory is invoked;
\* full is the whole list the page is cut from
getOverallLeaderboard(c, t, page, limit, timeRange, computed) ==
    With(getOrSet(c, t, overallKey(timeRange),
                  <<Returns(JsArray(computed)), Returns(JsArray(computed))>>,
                  [ttl |-> 300, prefix |-> "leaderboard", serialize |-> TRUE]),
         LAMBDA r : [cache |-> r.cache,
                     ret |-> paginateResults(r.result[1].v, page, limit),
                     full |-> r.result[1].v, calls |-> r.calls])

\* LeaderboardsService.getLeaderboardStats
LeaderboardsService_getLeaderboardStats(c, t, db) ==
    With(getOrSet(c, t, <<"leaderboard:stats">>,
                  <<Returns(JsStats(getLeaderboardStats(db, t))),
                    Returns(JsStats(getLeaderboardStats(db, t)))>>,
                  [ttl |-> 300, prefix |-> "leaderboard", serialize |-> TRUE]),
         LAMBDA r : [cache |-> r.cache, ret |-> r.result[1].v, calls |-> r.calls])

\* delPattern that looks the pattern up without the prefix
delPattern_unprefixed(c, t, pattern, options) ==
    LET ks == keys(c, t, pattern)
    IN  IF Len(ks) = 0 THEN [cache |-> c, ret |-> 0]
        ELSE [cache |-> delMultiple(c, ks).cache, ret |-> Len(ks)]

\* CacheService.delPattern
delPattern(c, t, pattern, options) ==
    LET fullPattern == buildKey(pattern, options.prefix)
        ks == keys(c, t, fullPattern)
    IN  IF Len(ks) = 0 THEN [cache |-> c, ret |-> 0]
        ELSE [cache |-> delMultiple(c, ks).cache, ret |-> Len(ks)]

\* the patterns clearLeaderboardCaches goes through, each with both prefixes
ClearPatterns ==
    << <<"leaderboard:overall:", "*">>, <<"leaderboard:project:", "*">>,
       <<"leaderboard:category:", "*">>, <<"leaderboard:stats">>,
       <<"leaderboard:top:", "*">>, <<"user:rank:", "*">> >>

RECURSIVE clearPatterns(_, _, _)
clearPatterns(c, t, patterns) ==
    IF patterns = <<>> THEN c
    ELSE LET c1 == delPattern(c, t, Head(patterns),
                              [ttl |-> 0, prefix |-> "leaderboard", serialize |-> TRUE]).cache
             c2 == delPattern(c1, t, Head(patterns),
                              [ttl |-> 0, prefix |-> "user", serialize |-> TRUE]).cache
         IN  clearPatterns(c2, t, Tail(patterns))

clearLeaderboardCaches(c, t) == clearPatterns(c, t, ClearPatterns)

\* the payload emitted as 'leaderboard:update', and the map after the reads
broadcastLeaderboardUpdate(c, t, db, computed) ==
    With(getOverallLeaderboard(c, t, 1, 10, "", computed), LAMBDA leaderboard :
        With(LeaderboardsService_getLeaderboardStats(leaderboard.cache, t, db),
             LAMBDA stats :
                [cache |-> stats.cache,
                 emitted |-> [event |-> "leaderboard:update",
                              leaderboard |-> leaderboard.ret.data,
                              stats |-> stats.ret,
                              timestamp |-> toISOString(JsDate(t))]]))

updateLeaderboardOnSubmission(c, t, db, computed) ==
    broadcastLeaderboardUpdate(clearLeaderboardCaches(c, t), t, db, computed)

\* SubmissionsService.review: the table afterwards and the error thrown
review(db, id, status, score) ==
    IF id \notin DOMAIN db
    THEN [db |-> db, error |-> Some("SubmissionNotFoundError")]
    ELSE IF db[id].status # "PENDING"
    THEN [db |-> db, error |-> Some("InvalidSubmissionStatusError")]
    ELSE [db |-> [db EXCEPT ![id] = [userId |-> db[id].userId, status |-> status,
                                     score |-> Some(score)]],
          error |-> NULL]

Pages == {1, 2, 3}
Limits == {1, 2}

Review(id, status, score) ==
    LET r == review(submissions, id, status, score) IN
    /\ submissions' = r.db
    /\ last' = [op |-> "review", id |-> id, error |-> r.error]
    /\ UNCHANGED <<cache, now, written, served, emitted, inflight>>

GetOverallLeaderboard(page, limit, timeRange) ==
    \E computed \in calculateOverallLeaderboard(submissions, now, timeRange) :
        \E r \in {getOverallLeaderboard(cache, now, page, limit, timeRange, computed)} :
        /\ cache' = r.cache
        /\ last' = [op |-> "getOverallLeaderboard", page |-> page, limit |-> limit,
                    timeRange |-> timeRange, ret |-> r.ret, full |-> r.full,
                    calls |-> r.calls]
        /\ UNCHANGED <<now, written, served, submissions, emitted, inflight>>

GetLeaderboardStats ==
    \E r \in {LeaderboardsService_getLeaderboardStats(cache, now, submissions)} :
    /\ cache' = r.cache
    /\ last' = [op |-> "getLeaderboardStats", ret |-> r.ret, calls |-> r.calls]
    /\ UNCHANGED <<now, written, served, submissions, emitted, inflight>>

UpdateLeaderboardOnSubmission ==
    \E computed \in calculateOverallLeaderboard(submissions, now, "") :
        \E r \in {updateLeaderboardOnSubmission(cache, now, submissions, computed)} :
        /\ cache' = r.cache
        /\ emitted' = Some(r.emitted)
        /\ last' = [op |-> "updateLeaderboardOnSubmission"]
        /\ UNCHANGED <<now, written, served, submissions, inflight>>

\* reviews and leaderboard reads
NextBoard ==
    \/ \E id \in SubmissionIds, status \in ReviewStatuses, score \in ReviewScores :
          Review(id, status, score)
    \/ \E page \in Pages, limit \in Limits, timeRange \in TimeRanges :
          GetOverallLeaderboard(page, limit, timeRange)
    \/ CleanupExpired
    \/ Tick(BoardInstants)

SpecBoard == Init /\ [][NextBoard]_vars

\* bulk invalidation through the facade
PatternKeys == {<<"user:rank:", "u1">>, <<"user:rank:", "u2">>, <<"leaderboard:stats">>}
PatternOptions ==
    { [ttl |-> 60, prefix |-> "user", serialize |-> TRUE],
      [ttl |-> 300, prefix |-> "leaderboard", serialize |-> TRUE] }
DelPatterns == {<<"user:rank:", "*">>, <<"leaderboard:stats">>}
PatternInstants == {10000, 70500, 310500}

FacadeSet(key, value, options) ==
    LET r == CacheService_set(cache, now, key, value, options) IN
    /\ cache' = r.cache
    /\ last' = [op |-> "CacheService.set", key |-> key, options |-> options,
                ret |-> r.ret]
    /\ UNCHANGED <<now, written, served, submissions, emitted, inflight>>

DelPattern(pattern, options) ==
    LET r == delPattern(cache, now, pattern, options) IN
    /\ cache' = r.cache
    /\ last' = [op |-> "delPattern", pattern |-> pattern, options |-> options,
                ret |-> r.ret]
    /\ UNCHANGED <<now, written, served, submissions, emitted, inflight>>

NextPattern ==
    \/ \E key \in PatternKeys, options \in PatternOptions :
          FacadeSet(key, JsString("s"), options)
    \/ \E pattern \in DelPatterns, options \in PatternOptions :
          DelPattern(pattern, options)
    \/ CleanupExpired
    \/ Tick(PatternInstants)

SpecPattern == Init /\ [][NextPattern]_vars

\* reviews followed, or not, by updateLeaderboardOnSubmission
NextUpdate ==
    \/ \E id \in SubmissionIds : Review(id, "APPROVED", 100)
    \/ \E timeRange \in TimeRanges : GetOverallLeaderboard(1, 2, timeRange)
    \/ GetLeaderboardStats
    \/ UpdateLeaderboardOnSubmission
    \/ CleanupExpired
    \/ Tick(BoardInstants)

SpecUpdate == Init /\ [][NextUpdate]_vars

----------------------------------------------------------------------------
(* Calls suspended at their awaits: getOrSet as the three steps between its
   awaits, and a review followed by updateLeaderboardOnSubmission *)

boardOptions == [ttl |-> 300, prefix |-> "leaderboard", serialize |-> TRUE]

\* the keys and options of the other read methods
projectKey(projectId) == <<"leaderboard:project:", projectId>>
categoryKey(category) == <<"leaderboard:category:", category>>
userRankKey(userId) == <<"user:rank:", userId>>
statsKey == <<"leaderboard:stats">>
topKey(limit) == <<"leaderboard:top:", limit>>

\* a write step that keeps the value another call has stored meanwhile
getOrSetStore_keepsFirst(c, t, key, value, options) ==
    IF CacheService_get(c, t, key, options).ret.t # "null" THEN c
    ELSE CacheService_set(c, t, key, value, options).cache

\* await this.set(key, result, options)
getOrSetStore(c, t, key, value, options) ==
    CacheService_set(c, t, key, value, options).cache

\* const cached = await this.get<T>(key, options); a hit returns at once
GetOrSetRead(p, timeRange) ==
    /\ inflight[p].pc = "idle"
    /\ \E g \in {CacheService_get(cache, now, overallKey(timeRange), boardOptions)} :
          /\ cache' = g.cache
          /\ IF g.ret.t # "null"
             THEN /\ inflight' = inflight
                  /\ last' = [op |-> "getOrSet.hit", caller |-> p,
                              timeRange |-> timeRange, full |-> g.ret.v]
             ELSE /\ inflight' = [inflight EXCEPT
                                     ![p] = [pc |-> "factory", timeRange |-> timeRange]]
                  /\ last' = [op |-> "getOrSet.miss", caller |-> p,
                              timeRange |-> timeRange]
    /\ UNCHANGED <<now, written, served, submissions, emitted>>

\* const result = await factory(): the repository runs its query
GetOrSetFactory(p) ==
    /\ inflight[p].pc = "factory"
    /\ \E computed \in calculateOverallLeaderboard(submissions, now,
                                                   inflight[p].timeRange) :
          inflight' = [inflight EXCEPT
                          ![p] = [pc |-> "store", timeRange |-> inflight[p].timeRange,
                                  result |-> computed]]
    /\ last' = [op |-> "getOrSet.factory", caller |-> p]
    /\ UNCHANGED <<cache, now, written, served, submissions, emitted>>

\* await this.set(key, result, options); return result
GetOrSetStore(p) ==
    /\ inflight[p].pc = "store"
    /\ cache' = getOrSetStore(cache, now, overallKey(inflight[p].timeRange),
                              JsArray(inflight[p].result), boardOptions)
    /\ inflight' = [inflight EXCEPT ![p] = Idle]
    /\ last' = [op |-> "getOrSet.store", caller |-> p,
                timeRange |-> inflight[p].timeRange, full |-> inflight[p].result]
    /\ UNCHANGED <<now, written, served, submissions, emitted>>

\* a review whose caller goes on to call updateLeaderboardOnSubmission
ReviewStep(id, status, score) ==
    /\ inflight["reviewer"].pc = "idle"
    /\ \E r \in {review(submissions, id, status, score)} :
          /\ submissions' = r.db
          /\ last' = [op |-> "review", id |-> id, error |-> r.error]
          /\ inflight' = [inflight EXCEPT
                             !["reviewer"] = IF r.error = NULL THEN [pc |-> "clear"]
                                             ELSE Idle]
    /\ UNCHANGED <<cache, now, written, served, emitted>>

\* await this.clearLeaderboardCaches()
ClearStep ==
    /\ inflight["reviewer"].pc = "clear"
    /\ cache' = clearLeaderboardCaches(cache, now)
    /\ last' = [op |-> "clearLeaderboardCaches",
                removed |-> Evicted(cache, clearLeaderboardCaches(cache, now))]
    /\ inflight' = [inflight EXCEPT !["reviewer"] = [pc |-> "broadcast"]]
    /\ UNCHANGED <<now, written, served, submissions, emitted>>

\* await this.broadcastLeaderboardUpdate()
BroadcastStep ==
    /\ inflight["reviewer"].pc = "broadcast"
    /\ \E computed \in calculateOverallLeaderboard(submissions, now, "") :
          \E r \in {broadcastLeaderboardUpdate(cache, now, submissions, computed)} :
              /\ cache' = r.cache
              /\ emitted' = Some(r.emitted)
    /\ last' = [op |-> "broadcastLeaderboardUpdate"]
    /\ inflight' = [inflight EXCEPT !["reviewer"] = Idle]
    /\ UNCHANGED <<now, written, served, submissions>>

\* two readers of the overall leaderboard racing with a review and its update
NextRace ==
    \/ \E p \in Callers, timeRange \in TimeRanges : GetOrSetRead(p, timeRange)
    \/ \E p \in Callers : GetOrSetFactory(p)
    \/ \E p \in Callers : GetOrSetStore(p)
    \/ \E id \in {"s1", "s2"} : ReviewStep(id, "APPROVED", 100)
    \/ ClearStep
    \/ BroadcastStep
    \/ CleanupExpired
    \/ Tick(BoardInstants)

SpecRace == Init /\ [][NextRace]_vars

\* what the read methods cache, and keys of other services in the same
\* store: a rate counter, a revocation entry and a badge cache
ReadCaches ==
    { <<overallKey("week"), boardOptions>>,
      <<projectKey("p1"), [ttl |-> 120, prefix |-> "leaderboard", serialize |-> TRUE]>>,
      <<categoryKey("web"), [ttl |-> 300, prefix |-> "leaderboard", serialize |-> TRUE]>>,
      <<categoryKey("a\nb"), [ttl |-> 300, prefix |-> "leaderboard", serialize |-> TRUE]>>,
      <<userRankKey("U1"), [ttl |-> 60, prefix |-> "user", serialize |-> TRUE]>>,
      <<statsKey, [ttl |-> 300, prefix |-> "leaderboard", serialize |-> TRUE]>>,
      <<topKey("10"), [ttl |-> 120, prefix |-> "leaderboard", serialize |-> TRUE]>> }
OtherKeys ==
    { <<"rate_limit:", "10.0.0.1", ":", "/auth/login">>,
      <<"blacklist:", "t1">>,
      <<"user", ":", "badge-progress:", "U1">> }
ClearInstants == {10000, 70500}

\* updateLeaderboardOnSubmission is called
BeginUpdate ==
    /\ inflight["reviewer"].pc = "idle"
    /\ inflight' = [inflight EXCEPT !["reviewer"] = [pc |-> "clear"]]
    /\ last' = [op |-> "updateLeaderboardOnSubmission"]
    /\ UNCHANGED <<cache, now, written, served, submissions, emitted>>

\* the clearing step among entries of every namespace; the call is followed
\* up to the end of that step
NextClear ==
    \/ \E rc \in ReadCaches : FacadeSet(rc[1], JsObject("rank"), rc[2])
    \/ \E key \in OtherKeys :
          FacadeSet(key, JsNumber("0"), [ttl |-> 600, prefix |-> "", serialize |-> TRUE])
    \/ BeginUpdate
    \/ ClearStep
    \/ CleanupExpired
    \/ Tick(ClearInstants)

SpecClear == Init /\ [][NextClear]_vars

----------------------------------------------------------------------------
(* The client of a rejected request: it waits the retryAfter seconds the   *)
(* 429 response reported and sends the request again                        *)

\* the latest instant a client's wait may end at
RetryHorizon == 3610500

WaitRetryAfter ==
    /\ last.op = "canActivate"
    /\ ~last.admitted
    /\ last.exception # NULL
    /\ now + last.exception[1].retryAfter * 1000 <= RetryHorizon
    /\ now' = now + last.exception[1].retryAfter * 1000
    /\ last' = [op |-> "waitRetryAfter", key |-> last.key,
                retryAfter |-> last.exception[1].retryAfter]
    /\ UNCHANGED <<cache, written, served, submissions, emitted, inflight>>

NextRetry ==
    \/ \E request \in Requests : CanActivate(request, TRUE)
    \/ WaitRetryAfter
    \/ CleanupExpired
    \/ Tick(RateInstants)

SpecRetry == Init /\ [][NextRetry]_vars

----------------------------------------------------------------------------

(* The guard on a path served under two policy entries: POST /files falls  *)
(* under the upload entry, GET /files under the read entry                  *)

PolicyRequests ==
    { Request("10.0.0.1", NULL, <<"/files">>, "GET"),
      Request("10.0.0.1", NULL, <<"/files">>, "POST") }

PolicyInstants == {10000, 3610500}

\* the largest counter followed
MaxAdmitted == 10

\* one more request admitted under the policy entry `limits` in the window
\* of the counter that ends at expiresAt
Admit(sv, key, limits, expiresAt) ==
    LET same(r) == r.key = key /\ r.limits = limits IN
    IF \E r \in sv : same(r) /\ r.expiresAt = expiresAt
    THEN {IF same(r) THEN [r EXCEPT !.n = r.n + 1] ELSE r : r \in sv}
    ELSE {r \in sv : ~same(r)}
             \cup {[key |-> key, limits |-> limits, expiresAt |-> expiresAt, n |-> 1]}

\* canActivate, with served counting the admitted requests by policy entry
CanActivatePolicy(request) ==
    LET r == canActivate(cache, now, request, isDevelopment)
        limits == getRateLimit(request.endpoint, request.method, request.userId,
                               isDevelopment)
    IN  /\ r.admitted => r.count[1] < MaxAdmitted
        /\ cache' = r.cache
        /\ last' = [op |-> "canActivate", key |-> r.key, method |-> request.method,
                    limits |-> limits, count |-> r.count, admitted |-> r.admitted]
        /\ served' = IF r.admitted
                      THEN Admit(served, r.key, limits,
                                 MapGet(r.cache, r.key)[1].expiresAt)
                      ELSE served
        /\ UNCHANGED <<now, written, submissions, emitted, inflight>>

NextPolicy ==
    \/ \E request \in PolicyRequests : CanActivatePolicy(request)
    \/ CleanupExpired
    \/ Tick(PolicyInstants)

SpecPolicy == Init /\ [][NextPolicy]_vars

----------------------------------------------------------------------------

(* RateLimitGuard.canActivate as the two steps between its awaits on the   *)
(* counter store: the read of the counter, and the write of it              *)

GuardInstants == {10000, 3610500}

\* the callers share one identifier and one endpoint
GuardRequests == {Request("10.0.0.1", NULL, <<"/auth/reset">>, "POST")}

\* const current = await this.cacheService.get(key), the headers and the
\* decision; a rejected call ends here, an admitted one goes on to its write
CanActivateRead(p, request) ==
    LET limits == getRateLimit(request.endpoint, request.method, request.userId,
                               isDevelopment)
        key == rateLimitKey(request)
        g == get(cache, now, key)
        count == IF g.ret # NULL /\ g.ret[1] # "" THEN ParseInt(g.ret[1]) ELSE Some(0)
    IN  /\ inflight[p].pc = "idle"
        /\ cache' = g.cache
        /\ IF count # NULL /\ count[1] >= limits.max
           THEN /\ inflight' = inflight
                /\ last' = [op |-> "canActivate.reject", caller |-> p, key |-> key,
                            count |-> count]
           ELSE /\ inflight' = [inflight EXCEPT
                                   ![p] = [pc |-> "write", request |-> request,
                                           count |-> count]]
                /\ last' = [op |-> "canActivate.read", caller |-> p, key |-> key,
                            count |-> count]
        /\ UNCHANGED <<now, written, served, submissions, emitted>>

\* await setex(key, limits.window, '1') or await incr(key), then return true;
\* served counts the calls that returned true in the window of the key
CanActivateWrite(p) ==
    /\ inflight[p].pc = "write"
    /\ LET request == inflight[p].request
           count == inflight[p].count
           limits == getRateLimit(request.endpoint, request.method, request.userId,
                                  isDevelopment)
           key == rateLimitKey(request)
       IN  /\ cache' = IF count = Some(0)
                       THEN setex(cache, now, key, limits.window, "1").cache
                       ELSE incr(cache, now, key).cache
           /\ served' = Serve(served, now, key, limits.window)
           /\ last' = [op |-> "canActivate.admit", caller |-> p, key |-> key,
                       limits |-> limits, count |-> count]
    /\ inflight' = [inflight EXCEPT ![p] = Idle]
    /\ UNCHANGED <<now, written, submissions, emitted>>

NextGuardRace ==
    \/ \E p \in Callers, request \in GuardRequests : CanActivateRead(p, request)
    \/ \E p \in Callers : CanActivateWrite(p)
    \/ CleanupExpired
    \/ Tick(GuardInstants)

SpecGuardRace == Init /\ [][NextGuardRace]_vars

----------------------------------------------------------------------------

(* SubmissionsService.review as the two steps between its awaits on the    *)
(* repository: findUnique with the status test, and update                  *)

ReviewedIds == {"s1", "s2"}

\* const submission = await this.submissionsRepository.findUnique(...), and
\* the two tests on it; a call that throws ends here
ReviewFind(p, id, status, score) ==
    /\ inflight[p].pc = "idle"
    /\ IF id \notin DOMAIN submissions
       THEN /\ inflight' = inflight
            /\ last' = [op |-> "review.error", caller |-> p, id |-> id,
                        error |-> "SubmissionNotFoundError"]
       ELSE IF submissions[id].status # "PENDING"
       THEN /\ inflight' = inflight
            /\ last' = [op |-> "review.error", caller |-> p, id |-> id,
                        error |-> "InvalidSubmissionStatusError"]
       ELSE /\ inflight' = [inflight EXCEPT
                               ![p] = [pc |-> "update", id |-> id,
                                       status |-> status, score |-> score]]
            /\ last' = [op |-> "review.find", caller |-> p, id |-> id]
    /\ UNCHANGED <<cache, now, written, served, submissions, emitted>>

\* await this.submissionsRepository.update({ where: { id }, data }), and the
\* return of the updated row: the review succeeds
ReviewUpdate(p) ==
    /\ inflight[p].pc = "update"
    /\ submissions' = [submissions EXCEPT ![inflight[p].id] =
                          [userId |-> submissions[inflight[p].id].userId,
                           status |-> inflight[p].status,
                           score |-> Some(inflight[p].score)]]
    /\ last' = [op |-> "review.update", caller |-> p, id |-> inflight[p].id]
    /\ inflight' = [inflight EXCEPT ![p] = Idle]
    /\ UNCHANGED <<cache, now, written, served, emitted>>

NextReviewRace ==
    \/ \E p \in Callers, id \in ReviewedIds, status \in ReviewStatuses,
          score \in ReviewScores : ReviewFind(p, id, status, score)
    \/ \E p \in Callers : ReviewUpdate(p)

SpecReviewRace == Init /\ [][NextReviewRace]_vars

----------------------------------------------------------------------------

(* The four cached reads that take a scope parameter, each a getOrSet under *)
(* the key and options of its method                                        *)

\* a key as the string the store sees: its chunks joined
RECURSIVE Flat(_)
Flat(key) == IF key = <<>> THEN "" ELSE Head(key) \o Flat(Tail(key))

\* the reads followed: timeRange "" is the omitted one; the project, category
\* and user parameters are any strings, those of other scopes among them
ScopedReads ==
    {[scope |-> "overall", param |-> x] : x \in {"", "all", "week"}}
        \cup {[scope |-> "project", param |-> x] : x \in {"p1", "week"}}
        \cup {[scope |-> "category", param |-> x] : x \in {"web", "p1"}}
        \cup {[scope |-> "rank", param |-> x] : x \in {"U1", "U2"}}

ScopedInstants == {10000, 70500, 310500}

readKey(scope, param) ==
    IF scope = "overall" THEN overallKey(param)
    ELSE IF scope = "project" THEN projectKey(param)
    ELSE IF scope = "category" THEN categoryKey(param)
    ELSE userRankKey(param)

readOptions(scope) ==
    IF scope = "overall" THEN boardOptions
    ELSE IF scope = "project" THEN [ttl |-> 120, prefix |-> "leaderboard", serialize |-> TRUE]
    ELSE IF scope = "category" THEN [ttl |-> 300, prefix |-> "leaderboard", serialize |-> TRUE]
    ELSE [ttl |-> 60, prefix |-> "user", serialize |-> TRUE]

\* the scope and parameter a cached value was computed for
ComputedFor(scope, param) ==
    [scope |-> scope, param |-> IF scope = "overall" /\ param = "" THEN "all" ELSE param]

\* getOverallLeaderboard / getProjectLeaderboard / getCategoryLeaderboard /
\* getUserRank up to the return of getOrSet; served keeps, per key string
\* still stored, the read whose factory computed the value stored under it
ScopedRead(scope, param) ==
    \E r \in {getOrSet(cache, now, readKey(scope, param),
                       <<Returns(JsObject("rank")), Returns(JsObject("rank"))>>,
                       readOptions(scope))} :
        LET flat == Flat(buildKey(readKey(scope, param), readOptions(scope).prefix)) IN
        /\ cache' = r.cache
        /\ last' = [op |-> "scopedRead", scope |-> scope, param |-> param,
                    flat |-> flat, calls |-> r.calls]
        /\ served' = {w \in IF r.calls = 1
                              THEN {v \in served : v.flat # flat}
                                       \cup {[flat |-> flat,
                                               for |-> ComputedFor(scope, param)]}
                              ELSE served :
                          \E i \in 1..Len(r.cache) : Flat(r.cache[i].key) = w.flat}
        /\ UNCHANGED <<now, written, submissions, emitted, inflight>>

NextScoped ==
    \/ \E q \in ScopedReads : ScopedRead(q.scope, q.param)
    \/ CleanupExpired
    \/ Tick(ScopedInstants)

SpecScoped == Init /\ [][NextScoped]_vars

----------------------------------------------------------------------------

(* Claims about the leaderboard *)

IsBoardKey(key) == key # <<>> /\ Head(key) \in {"leaderboard", "user"}

\* the texts a list computed from the table db can be cached as
FreshTexts(db, t) ==
    {JSON_stringify(JsArray(l)) : l \in calculateOverallLeaderboard(db, t, "")}

\* C15: a review that moves a submission out of PENDING leaves no live
\* leaderboard or user-rank cache entry computed before it and pushes the
\* recomputed top entries through the broadcast interface; a leaderboard
\* read is never served a list that the current table would not produce.
C15_ReviewInvalidates ==
    [][ /\ (last'.op = "review" /\ last'.error = NULL) =>
              /\ \A i \in 1..Len(cache') :
                    (IsBoardKey(cache'[i].key) /\ ~IsExpired(cache'[i], now')) =>
                        cache'[i].value \in FreshTexts(submissions', now')
              /\ emitted' # NULL
              /\ emitted'[1].leaderboard \in
                    {Slice(l, 0, 10) :
                        l \in calculateOverallLeaderboard(submissions', now', "")}
        /\ last'.op = "getOverallLeaderboard" =>
              last'.full \in calculateOverallLeaderboard(submissions, now, last'.timeRange)
      ]_vars

\* the fraction p is at least the fraction q
AtLeast(p, q) == p.num * q.den >= q.num * p.den

\* C16: the list a leaderboard read is cut from is ordered by totalScore
\* descending, then approvedSubmissions descending, then averageScore
\* descending; it holds every active user once and the rank of the entry at
\* position i is i, so the ranks are exactly 1..n, ties on totalScore included.
C16_RankingOrder ==
    last.op = "getOverallLeaderboard" =>
        LET L == last.full IN
        /\ \A i \in 1..Len(L) : L[i].rank = i
        /\ {L[i].userId : i \in 1..Len(L)} = ActiveUsers
        /\ Len(L) = Cardinality(ActiveUsers)
        /\ \A i, j \in 1..Len(L) :
              i < j =>
                \/ L[i].totalScore > L[j].totalScore
                \/ /\ L[i].totalScore = L[j].totalScore
                   /\ L[i].approvedSubmissions > L[j].approvedSubmissions
                \/ /\ L[i].totalScore = L[j].totalScore
                   /\ L[i].approvedSubmissions = L[j].approvedSubmissions
                   /\ AtLeast(L[i].averageScore, L[j].averageScore)

\* U1 and U2 both total 100, U2 with two approved submissions and U1 with
\* one: U2 is ranked 1 and U1 is ranked 2
C16_Witness ==
    /\ last.op = "getOverallLeaderboard"
    /\ last.calls = 1
    /\ \E i, j \in 1..Len(last.full) :
          /\ last.full[i].userId = "U2" /\ last.full[i].rank = 1
          /\ last.full[j].userId = "U1" /\ last.full[j].rank = 2
          /\ last.full[i].totalScore = 100 /\ last.full[j].totalScore = 100
          /\ last.full[i].approvedSubmissions = 2
          /\ last.full[j].approvedSubmissions = 1

\* the pages first..totalPages of list, one after the other
RECURSIVE PagesFrom(_, _, _, _)
PagesFrom(list, first, totalPages, limit) ==
    IF first > totalPages THEN <<>>
    ELSE paginateResults(list, first, limit).data
             \o PagesFrom(list, first + 1, totalPages, limit)

\* C17: the page a leaderboard read returns is the slice
\* [(page-1)*limit, page*limit) of the full ranked list: its k-th entry is the
\* entry at position (page-1)*limit + k and has that rank, total is the
\* length of the full list, hasNext holds exactly when page + 1 is not empty,
\* and the pages 1..totalPages joined give the full list.
C17_Pagination ==
    last.op = "getOverallLeaderboard" =>
        LET L == last.full
            page == last.page
            limit == last.limit
            data == last.ret.data
            offset == (page - 1) * limit
            size == Max(0, Min(limit, Len(L) - offset))
        IN  /\ Len(data) = size
            /\ \A k \in 1..size : data[k] = L[offset + k] /\ data[k].rank = offset + k
            /\ last.ret.pagination.total = Len(L)
            /\ last.ret.pagination.hasNext
                  <=> paginateResults(L, page + 1, limit).data # <<>>
            /\ PagesFrom(L, 1, last.ret.pagination.totalPages, limit) = L
            /\ paginateResults(L, last.ret.pagination.totalPages + 1, limit).data = <<>>

\* page 2 of a three-entry list with limit 2 served from the cache: it
\* holds the entry ranked 3 alone and there is no next page
C17_Witness ==
    /\ last.op = "getOverallLeaderboard"
    /\ last.calls = 0
    /\ last.page = 2
    /\ last.limit = 2
    /\ Len(last.ret.data) = 1
    /\ last.ret.data[1].rank = 3
    /\ ~last.ret.pagination.hasNext
    /\ last.ret.pagination.totalPages = 2

----------------------------------------------------------------------------
(* Claims about counters, ttl and delPattern *)

\* the counter a live entry holds, <<>> if its value is not a number
Holds(c, key) == ParseInt(MapGet(c, key)[1].value)

\* C18: incr of an absent (or expired) key returns 1 and decr of it returns
\* 0; for a live counter holding n, incr returns n + 1 and decr returns
\* max(0, n - 1); what is returned is what is stored, and it is never negative.
C18_CounterArithmetic ==
    [][ last'.op \in {"incr", "decr"} =>
          LET key == last'.key
              live == IsLive(cache, now, key)
          IN  /\ (last'.op = "incr" /\ ~live) => last'.ret = 1
              /\ (last'.op = "decr" /\ ~live) => last'.ret = 0
              /\ (last'.op = "incr" /\ live /\ Holds(cache, key) # NULL) =>
                    last'.ret = Holds(cache, key)[1] + 1
              /\ (last'.op = "decr" /\ live /\ Holds(cache, key) # NULL) =>
                    last'.ret = Max(0, Holds(cache, key)[1] - 1)
              /\ last'.ret >= 0
              /\ Holds(cache', key) = Some(last'.ret)
      ]_vars

\* a counter with an expiry that had been incremented to 2 was decremented
\* and now holds 1
C18_Witness ==
    /\ last.op = "decr"
    /\ last.ret = 1
    /\ Holds(cache, last.key) = Some(1)
    /\ IsLive(cache, now, last.key)
    /\ MapGet(cache, last.key)[1].expiresAt # 0

\* C19: ttl(key) is the whole seconds remaining for a live key with an
\* expiry, -1 for a live key without expiry, and -2 exactly when get(key)
\* returns none (the key is absent or expired).
C19_TtlCodes ==
    last.op = "ttl" =>
        LET key == last.key
            live == IsLive(cache, now, key)
        IN  /\ (live /\ MapGet(cache, key)[1].expiresAt # 0) =>
                  last.ret = (MapGet(cache, key)[1].expiresAt - now) \div 1000
            /\ (live /\ MapGet(cache, key)[1].expiresAt = 0) => last.ret = -1
            /\ last.ret = -2 <=> get(cache, now, key).ret = NULL

----------------------------------------------------------------------------
(* Claims about the rate-limit headers and the rejected requests *)

\* C21: on every request X-RateLimit-Remaining is max(0, max - count - 1),
\* count being the counter read before the request is counted; so the k-th
\* request handled in a window carries max(0, max - k), which never
\* increases within the window, is max - k on an admitted request and 0 on
\* a rejected one.
C21_RemainingHeader ==
    [][ last'.op = "canActivate" =>
          LET before == get(cache, now, last'.key).ret
              count == IF before = NULL THEN 0 ELSE ParseInt(before[1])[1]
              max == last'.limits.max
          IN  /\ last'.remaining = Some(Max(0, max - count - 1))
              /\ \A w \in served' :
                    w.key = last'.key =>
                        /\ last'.remaining = Some(Max(0, max - w.n))
                        /\ last'.admitted => last'.remaining = Some(max - w.n)
              /\ ~last'.admitted => last'.remaining = Some(0)
      ]_vars

\* the third request of a window under {max: 5, window: 900} carried
\* X-RateLimit-Remaining: 2
C21_Witness ==
    /\ last.op = "canActivate"
    /\ last.limits = [max |-> 5, window |-> 900]
    /\ last.admitted
    /\ last.remaining = Some(2)
    /\ \E w \in served : w.key = last.key /\ w.n = 3

\* C27: a rejected request is decided on the count read before any
\* increment and leaves the store as it was: the counter keeps its value and
\* its expiry, so rejections are not counted and do not move the window.
C27_RejectionLeavesCounter ==
    [][ (last'.op = "canActivate" /\ ~last'.admitted) =>
          /\ IsLive(cache, now, last'.key)
          /\ Count(cache, last'.key) >= last'.limits.max
          /\ last'.count = Some(Count(cache, last'.key))
          /\ MapGet(cache', last'.key) = MapGet(cache, last'.key)
          /\ cache' = cache
      ]_vars

\* a request under {max: 3, window: 3600} was rejected half-way through the
\* window and the counter still holds 3 and the expiry set when it opened
C27_Witness ==
    /\ last.op = "canActivate"
    /\ ~last.admitted
    /\ last.limits = [max |-> 3, window |-> 3600]
    /\ now = 910000
    /\ MapGet(cache, last.key) =
          Some([key |-> last.key, value |-> "3", expiresAt |-> 10000 + 3600 * 1000])

----------------------------------------------------------------------------
(* Claims about the aggregates of a leaderboard entry *)

\* the user's submissions within the time filter that are APPROVED
ApprovedOf(db, u, dateFilter) ==
    {id \in Joined(db, u, dateFilter) : db[id].status = "APPROVED"}

\* C22: in every entry of a freshly computed leaderboard totalScore is the
\* sum of the scores of the user's APPROVED submissions within the time
\* filter, totalSubmissions counts all of the user's submissions and
\* approvedSubmissions the approved ones; pending and rejected submissions
\* add nothing to totalScore.
C22_ApprovedScoresOnly ==
    (last.op = "getOverallLeaderboard" /\ last.calls = 1) =>
        \A i \in 1..Len(last.full) :
            LET e == last.full[i]
                dateFilter == getDateFilter(now, last.timeRange)
            IN  /\ e.totalScore =
                      SumScore(submissions, ApprovedOf(submissions, e.userId, dateFilter))
                /\ e.totalSubmissions =
                      Cardinality(Joined(submissions, e.userId, dateFilter))
                /\ e.approvedSubmissions =
                      Cardinality(ApprovedOf(submissions, e.userId, dateFilter))

----------------------------------------------------------------------------
(* Claims about logging a user out everywhere *)

IsRevocation(e) == patternToRegex(<<"blacklist:", "*">>, e.key)

C29_LogoutRevokesAll ==
    [][ last'.op = "blacklistAllUserTokens" =>
          \A token \in Tokens :
              (/\ isTokenBlacklisted(cache, now, token).ret
               /\ get(cache, now, <<"blacklist:", token>>).ret = Some(last'.userId))
                  => isTokenBlacklisted(cache', now', token).ret
      ]_vars

----------------------------------------------------------------------------
(* Claims about expired entries that were not purged yet *)

\* C28: once an entry has expired, get never returns its value again
\* unless set / setex writes the key: expire(key, ttl) on an expired entry
\* that is still in the map returns false and leaves the key absent, as it
\* does for a key that was never stored.
C28_ExpireOnExpired ==
    [][ (/\ last'.op = "expire"
         /\ MapHas(cache, last'.key)
         /\ IsExpired(MapGet(cache, last'.key)[1], now)) =>
            /\ last'.ret = FALSE
            /\ get(cache', now', last'.key).ret = NULL
      ]_vars

----------------------------------------------------------------------------
(* Claims about calls that interleave at their awaits *)

overallFullKey == buildKey(overallKey(""), boardOptions.prefix)

\* C24: once updateLeaderboardOnSubmission has cleared the caches after a
\* review, no live cache entry holds a list computed from the table as it
\* was before the review, whatever getOrSet call was awaiting its factory
\* meanwhile.
C24_NoStaleAfterInvalidation ==
    inflight["reviewer"].pc \in {"broadcast", "idle"} =>
        (IsLive(cache, now, overallFullKey) =>
            MapGet(cache, overallFullKey)[1].value \in FreshTexts(submissions, now))

\* C26: getOrSet has no single-flight: a call that misses goes on to its
\* factory whatever other call is in flight, and each call's write step
\* stores its own result, so the entry holds the result of the call that
\* stored last.
C26_LastStoreWins ==
    [][ /\ last'.op = "getOrSet.miss" => inflight'[last'.caller].pc = "factory"
        /\ last'.op = "getOrSet.store" =>
              MapGet(cache', overallFullKey) =
                  Some([key |-> overallFullKey,
                        value |-> JSON_stringify(JsArray(inflight[last'.caller].result)),
                        expiresAt |-> now + boardOptions.ttl * 1000])
      ]_vars

\* both callers missed the same key and both have invoked factory, with
\* different results, before either has stored
C26_Witness ==
    /\ inflight["p1"].pc = "store"
    /\ inflight["p2"].pc = "store"
    /\ inflight["p1"].result # inflight["p2"].result
    /\ ~MapHas(cache, overallFullKey)

----------------------------------------------------------------------------
(* Claims about what the clearing step removes *)

\* a key one of the read methods writes: getOverallLeaderboard,
\* getProjectLeaderboard, getCategoryLeaderboard, getLeaderboardStats,
\* getTopPerformers under the prefix 'leaderboard', getUserRank under 'user'
WrittenByReads(key) ==
    \/ /\ Len(key) = 4
       /\ key[1] = "leaderboard" /\ key[2] = ":"
       /\ key[3] \in {"leaderboard:overall:", "leaderboard:project:",
                      "leaderboard:category:", "leaderboard:top:"}
    \/ key = <<"leaderboard", ":", "leaderboard:stats">>
    \/ /\ Len(key) = 4
       /\ key[1] = "user" /\ key[2] = ":" /\ key[3] = "user:rank:"

\* C30: when the clearing step of updateLeaderboardOnSubmission completes,
\* no key written by a leaderboard read method or by getUserRank can be
\* read any more, and every other entry (rate counters, revocation entries,
\* badge caches) is where it was, with its value and expiry.
C30_ClearRemovesReadKeys ==
    [][ last'.op = "clearLeaderboardCaches" =>
          /\ \A i \in 1..Len(cache') :
                WrittenByReads(cache'[i].key) => IsExpired(cache'[i], now')
          /\ \A i \in 1..Len(cache) :
                WrittenByReads(cache[i].key) =>
                    get(cache', now', cache[i].key).ret = NULL
          /\ cache' = SelectSeq(cache, LAMBDA e :
                         ~(WrittenByReads(e.key) /\ ~IsExpired(e, now)))
      ]_vars

\* C25: however concurrent canActivate calls for one identifier and endpoint
\* interleave between reading the counter and writing it, the calls admitted
\* within one window of the key are never more than max
C25_AdmittedWithinMax ==
    last.op = "canActivate.admit" =>
        \A w \in served : w.key = last.key => w.n <= last.limits.max

\* C31: after a rejection that reported retryAfter = r, the request of the
\* same identifier to the same endpoint sent r seconds later, with no other
\* request in between, is admitted
C31_RetryAfterAdmits ==
    [][ (last.op = "waitRetryAfter" /\ last'.op = "canActivate"
            /\ last'.key = last.key) => last'.admitted ]_vars

\* C35: incr and decr never change an entry's expiry: a stored key, live or
\* expired, keeps the expiresAt it had; a missing key is created with no
\* expiry; a missing or expired key counts as 0 before the delta is applied;
\* no other entry is touched.
C35_CountersKeepExpiry ==
    [][ last'.op \in {"incr", "decr"} =>
          LET key == last'.key
              after == MapGet(cache', key)
          IN  /\ after # NULL
              /\ MapHas(cache, key) =>
                    after[1].expiresAt = MapGet(cache, key)[1].expiresAt
              /\ ~MapHas(cache, key) => after[1].expiresAt = 0
              /\ ~IsLive(cache, now, key) =>
                    after[1].value = IF last'.op = "incr" THEN "1" ELSE "0"
              /\ \A i \in 1..Len(cache) :
                    cache[i].key # key => cache'[i] = cache[i]
      ]_vars

\* an expired, unpurged counter was incremented: it holds 1 and still
\* carries the expiry that has passed
C35_Witness ==
    /\ last.op = "incr"
    /\ MapHas(cache, last.key)
    /\ IsExpired(MapGet(cache, last.key)[1], now)
    /\ MapGet(cache, last.key)[1].value = "1"

\* C32: in every reachable state every rate-limit counter entry has a finite
\* expiry (expiresAt is set), so that no counter outlives its window and keeps
\* an identifier rejected for ever
C32_CountersExpire ==
    \A i \in 1..Len(cache) : IsRateKey(cache[i].key) => cache[i].expiresAt # 0

\* C33: a request is rejected only if at least max requests governed by the
\* same policy entry (same identifier, endpoint and method class) were
\* admitted in the current window of its counter; requests of another method
\* class on the same path do not use up its quota
C33_RejectedOnlyAtOwnQuota ==
    (last.op = "canActivate" /\ ~last.admitted) =>
        \E w \in served :
            /\ w.key = last.key
            /\ w.limits = last.limits
            /\ w.expiresAt = MapGet(cache, last.key)[1].expiresAt
            /\ w.n >= last.limits.max

\* what get, exists and keys return at time t is the same on c1 and on c2
ReadsAgree(c1, c2, t) ==
    /\ \A key \in Keys :
          /\ get(c1, t, key).ret = get(c2, t, key).ret
          /\ exists(c1, t, key).ret = exists(c2, t, key).ret
    /\ \A pattern \in Patterns : keys(c1, t, pattern) = keys(c2, t, pattern)

\* the store after one more call: none, or a write of the store
SweepFollowers ==
    {[name |-> "none", key |-> <<"a">>]}
        \cup {[name |-> n, key |-> key] :
                 n \in {"set", "incr", "decr", "expire"}, key \in Keys}

Followed(f, c, t) ==
    IF f.name = "set" THEN set(c, t, f.key, "x", 0).cache
    ELSE IF f.name = "incr" THEN incr(c, t, f.key).cache
    ELSE IF f.name = "decr" THEN decr(c, t, f.key).cache
    ELSE IF f.name = "expire" THEN expire(c, t, f.key, 1).cache
    ELSE c

\* the sweep removes exactly the entries whose expiry has passed and leaves
\* every other entry, and the order of the entries, as they were
SweepExact ==
    /\ cache' = SelectSeq(cache, LAMBDA e : ~IsExpired(e, now))
    /\ last'.cleaned = Cardinality({i \in 1..Len(cache) : IsExpired(cache[i], now)})

\* C34 as stated: the sweep removes exactly the entries with now > expiresAt
\* and changes no other entry, and no later get, exists or keys call, whatever
\* call of the store precedes it, returns something else than it would have
\* returned without the sweep.
C34_Original ==
    [][ last'.op = "cleanupExpired" =>
          /\ SweepExact
          /\ \A t \in Instants : t >= now =>
                \A f \in SweepFollowers :
                    ReadsAgree(Followed(f, cache', t), Followed(f, cache, t), t)
      ]_vars

\* C34 amended: the sweep removes exactly the entries with now > expiresAt
\* and changes no other entry, and a get, exists or keys call that follows
\* it, at once or later, with no write of the store in between returns what
\* it would have returned without the sweep.
C34_SweepExact ==
    [][ last'.op = "cleanupExpired" =>
          /\ SweepExact
          /\ \A t \in Instants : t >= now => ReadsAgree(cache', cache, t)
      ]_vars

\* a sweep removed an expired entry and left a live one in place
C34_Witness ==
    /\ last.op = "cleanupExpired"
    /\ last.cleaned > 0
    /\ cache # <<>>

\* C36: a submission leaves PENDING at most once: every review that succeeds
\* writes a submission that is still PENDING and takes it out of PENDING, so
\* of the review calls on one submission, concurrent ones included, at most
\* one succeeds
C36_ReviewedOnce ==
    [][ last'.op = "review.update" =>
          /\ submissions[last'.id].status = "PENDING"
          /\ submissions'[last'.id].status # "PENDING"
      ]_vars

\* C37: reads for different (scope, timeRange) combinations and user-rank
\* reads for different users use different keys, so a read answered from the
\* cache returns what was computed for its own scope, time range or user; an
\* omitted time range and 'all' share one key.
C37_OwnKeyPerScope ==
    /\ \A q1, q2 \in ScopedReads :
          Flat(buildKey(readKey(q1.scope, q1.param), readOptions(q1.scope).prefix))
              = Flat(buildKey(readKey(q2.scope, q2.param), readOptions(q2.scope).prefix))
          <=> ComputedFor(q1.scope, q1.param) = ComputedFor(q2.scope, q2.param)
    /\ \A i, j \in 1..Len(cache) : i # j => Flat(cache[i].key) # Flat(cache[j].key)
    /\ (last.op = "scopedRead" /\ last.calls = 0) =>
          \E w \in served :
              /\ w.flat = last.flat
              /\ w.for = ComputedFor(last.scope, last.param)

\* the overall list cached by a read for 'all' was returned to a read that
\* left the time range out, while the list of the week is cached beside it
C37_Witness ==
    /\ last.op = "scopedRead"
    /\ last.scope = "overall" /\ last.param = ""
    /\ last.calls = 0
    /\ [flat |-> last.flat, for |-> [scope |-> "overall", param |-> "all"]] \in served
    /\ \E i \in 1..Len(cache) :
          cache[i].key = <<"leaderboard", ":", "leaderboard:overall:", "week">>

====
